---- MODULE Spec2Model ----
(***************************************************************************)
(* Webhook ingestion and query pipeline (app/main.py, app/storage.py,      *)
(* app/models.py, app/config.py) and its counter registry                  *)
(* (app/metrics.py).                                                       *)
(*                                                                         *)
(* Strings are sequences of one-character strings, so that the regular     *)
(* expression, the timestamp parser, the LIKE match and SQLite's BINARY    *)
(* collation are computed character by character as the code computes      *)
(* them.  Optional values (Python None, JSON null, an absent header or     *)
(* query parameter) are tagged records: None or Str(s).                    *)
(***************************************************************************)
EXTENDS Integers, Sequences, FiniteSets, TLC

(***************************************************************************)
(* Bounds of the model.                                                    *)
(***************************************************************************)
\* Number of concurrent request handlers, and of threads calling the registry.
NumHandlers == 3

\* Last value of the wall clock (seconds since process start).
MaxClock == 1

\* Webhook requests are taken while fewer than MaxCounted have been counted.
MaxCounted == 3

(***************************************************************************)
(* Characters and strings.                                                 *)
(***************************************************************************)
None == [t |-> "none"]

Str(s) == [t |-> "str", s |-> s]

\* An integer query parameter that was given.
Num(n) == [t |-> "int", n |-> n]

\* Python truthiness of an Optional[str]: None and "" are falsy.
Truthy(v) == v.t = "str" /\ v.s # <<>>

\* Printable ASCII, codes 32..126, in code order (code 96, the grave accent,
\* is spelled out: no string of the model holds it).
Ascii ==
  << " ", "!", "\"", "#", "$", "%", "&", "'", "(", ")", "*", "+", ",", "-",
     ".", "/", "0", "1", "2", "3", "4", "5", "6", "7", "8", "9", ":", ";",
     "<", "=", ">", "?", "@", "A", "B", "C", "D", "E", "F", "G", "H", "I",
     "J", "K", "L", "M", "N", "O", "P", "Q", "R", "S", "T", "U", "V", "W",
     "X", "Y", "Z", "[", "\\", "]", "^", "_", "grave", "a", "b", "c", "d", "e",
     "f", "g", "h", "i", "j", "k", "l", "m", "n", "o", "p", "q", "r", "s",
     "t", "u", "v", "w", "x", "y", "z", "{", "|", "}", "~" >>

Chars == {Ascii[i] : i \in 1..Len(Ascii)} \cup {"\n"}

\* The byte value of a character (UTF-8 of ASCII text).
Code == [c \in Chars |->
           IF c = "\n" THEN 10
           ELSE 31 + (CHOOSE i \in 1..Len(Ascii) : Ascii[i] = c)]

IsDigit(c) == Code[c] >= 48 /\ Code[c] <= 57

DigitVal(c) == Code[c] - 48

IsSpace(c) == c = " " \/ c = "\n"

\* str.lower() / SQLite LOWER() on ASCII text.
LowerChar(c) == IF Code[c] >= 65 /\ Code[c] <= 90
                THEN Ascii[Code[c] + 32 - 31]
                ELSE c

Lower(s) == [i \in 1..Len(s) |-> LowerChar(s[i])]

\* memcmp order of two strings (SQLite's BINARY collation on TEXT).
StrLess(a, b) ==
  \E k \in 1..(Len(b)) :
     /\ \A j \in 1..(k - 1) : j <= Len(a) /\ a[j] = b[j]
     /\ \/ k = Len(a) + 1
        \/ k <= Len(a) /\ Code[a[k]] < Code[b[k]]

StrLeq(a, b) == a = b \/ StrLess(a, b)

StartsWith(s, c) == Len(s) >= 1 /\ s[1] = c

EndsWith(s, c) == Len(s) >= 1 /\ s[Len(s)] = c

\* str.strip(): leading and trailing whitespace removed.
RECURSIVE LStrip(_)
LStrip(s) == IF s # <<>> /\ IsSpace(Head(s)) THEN LStrip(Tail(s)) ELSE s

RECURSIVE RStrip(_)
RStrip(s) == IF s # <<>> /\ IsSpace(s[Len(s)])
             THEN RStrip(SubSeq(s, 1, Len(s) - 1))
             ELSE s

Strip(s) == RStrip(LStrip(s))

\* str.replace("Z", "+00:00"): every Z is replaced.
RECURSIVE ReplaceZ(_)
ReplaceZ(s) ==
  IF s = <<>> THEN <<>>
  ELSE IF Head(s) = "Z" THEN <<"+", "0", "0", ":", "0", "0">> \o ReplaceZ(Tail(s))
  ELSE <<Head(s)>> \o ReplaceZ(Tail(s))

AllDigits(s) == \A i \in 1..Len(s) : IsDigit(s[i])

\* The value of a string of decimal digits.
RECURSIVE DecVal(_)
DecVal(s) == IF s = <<>> THEN 0
             ELSE 10 * DecVal(SubSeq(s, 1, Len(s) - 1)) + DigitVal(s[Len(s)])

(***************************************************************************)
(* Payload Validator: main.py                                              *)
(***************************************************************************)
\* Field(..., max_length=4096) of WebhookMessage.text.
MaxTextLen == 4096

\* E164_REGEX.match(s) for r"^\+[1-9]\d{7,14}$".  re.match anchors at the
\* start; "$" matches at the end of the string and also just before a
\* newline that is the last character.
E164Body(s) ==
  /\ Len(s) >= 9
  /\ Len(s) <= 16
  /\ s[1] = "+"
  /\ IsDigit(s[2])
  /\ s[2] # "0"
  /\ \A i \in 3..Len(s) : IsDigit(s[i])

E164Match(s) ==
  \/ E164Body(s)
  \/ /\ EndsWith(s, "\n")
     /\ E164Body(SubSeq(s, 1, Len(s) - 1))

IsLeap(y) == (y % 4 = 0 /\ y % 100 # 0) \/ y % 400 = 0

DaysInMonth(y, m) ==
  IF m = 2 THEN (IF IsLeap(y) THEN 29 ELSE 28)
  ELSE IF m \in {4, 6, 9, 11} THEN 30 ELSE 31

\* YYYY-MM-DD
IsoDate(d) ==
  /\ Len(d) = 10
  /\ d[5] = "-"
  /\ d[8] = "-"
  /\ AllDigits(SubSeq(d, 1, 4))
  /\ AllDigits(SubSeq(d, 6, 7))
  /\ AllDigits(SubSeq(d, 9, 10))
  /\ LET y == DecVal(SubSeq(d, 1, 4))
         m == DecVal(SubSeq(d, 6, 7))
         dd == DecVal(SubSeq(d, 9, 10))
     IN  /\ y >= 1
         /\ m >= 1
         /\ m <= 12
         /\ dd >= 1
         /\ dd <= DaysInMonth(y, m)

\* HH, HH:MM or HH:MM:SS, each field two digits below hi.
TwoDigitsBelow(s, hi) == Len(s) = 2 /\ AllDigits(s) /\ DecVal(s) < hi

IsoClock(c) ==
  \/ TwoDigitsBelow(c, 24)
  \/ /\ Len(c) = 5
     /\ c[3] = ":"
     /\ TwoDigitsBelow(SubSeq(c, 1, 2), 24)
     /\ TwoDigitsBelow(SubSeq(c, 4, 5), 60)
  \/ /\ Len(c) = 8
     /\ c[3] = ":"
     /\ c[6] = ":"
     /\ TwoDigitsBelow(SubSeq(c, 1, 2), 24)
     /\ TwoDigitsBelow(SubSeq(c, 4, 5), 60)
     /\ TwoDigitsBelow(SubSeq(c, 7, 8), 60)

\* [+-]HH:MM
IsoOffset(o) ==
  /\ Len(o) = 6
  /\ o[1] \in {"+", "-"}
  /\ o[4] = ":"
  /\ TwoDigitsBelow(SubSeq(o, 2, 3), 24)
  /\ TwoDigitsBelow(SubSeq(o, 5, 6), 60)

\* The time part: a clock, then an optional UTC offset starting at the
\* first sign character.
IsoTime(t) ==
  LET signs == {i \in 1..Len(t) : t[i] \in {"+", "-"}}
  IN  IF signs = {} THEN IsoClock(t)
      ELSE LET k == CHOOSE i \in signs : \A j \in signs : i <= j
           IN  /\ IsoClock(SubSeq(t, 1, k - 1))
               /\ IsoOffset(SubSeq(t, k, Len(t)))

\* datetime.fromisoformat(r) succeeds, for the extended format with whole
\* seconds: YYYY-MM-DD, optionally one separator character and a time.
FromIsoFormatOk(r) ==
  /\ Len(r) >= 10
  /\ IsoDate(SubSeq(r, 1, 10))
  /\ \/ Len(r) = 10
     \/ /\ Len(r) >= 12
        /\ IsoTime(SubSeq(r, 12, Len(r)))

\* WebhookMessage(**payload): the pydantic model.  payload is the field map
\* of a JSON object; a required field must be present and a string,
\* message_id has min_length 1, text is optional with max_length 4096.
RequiredStr(fields, k) == k \in DOMAIN fields /\ fields[k].t = "str"

ModelOk(fields) ==
  /\ RequiredStr(fields, "message_id")
  /\ Len(fields["message_id"].s) >= 1
  /\ RequiredStr(fields, "from")
  /\ RequiredStr(fields, "to")
  /\ RequiredStr(fields, "ts")
  /\ \/ "text" \notin DOMAIN fields
     \/ fields["text"] = None
     \/ /\ fields["text"].t = "str"
        /\ Len(fields["text"].s) <= MaxTextLen

WebhookMessage(fields) ==
  [message_id |-> fields["message_id"].s,
   from_      |-> fields["from"].s,
   to         |-> fields["to"].s,
   ts         |-> fields["ts"].s,
   text       |-> IF "text" \in DOMAIN fields THEN fields["text"] ELSE None]

\* WebhookMessage.validate_fields: TRUE when no ValueError is raised.
ValidateFields(msg) ==
  /\ E164Match(msg.from_)
  /\ E164Match(msg.to)
  /\ EndsWith(msg.ts, "Z")
  /\ FromIsoFormatOk(ReplaceZ(msg.ts))

(***************************************************************************)
(* Signature Verifier: main.py                                             *)
(***************************************************************************)
\* compute_signature: the hex HMAC-SHA256 of the raw body under the secret,
\* as a term that is equal only for the same key and the same body.
ComputeSignature(sec, raw_body) ==
  [alg |-> "hmac-sha256", key |-> sec, msg |-> raw_body]

\* The X-Signature header when absent (Header(default="")).
NoSignature == [alg |-> "none", key |-> "", msg |-> [kind |-> "none"]]

\* SignatureOk with the test for a missing header inverted: a request
\* without X-Signature is let through.
SignatureOkUnlessMissing(sec, raw_body, x_signature) ==
  \/ x_signature = NoSignature
  \/ x_signature = ComputeSignature(sec, raw_body)

\* not (not x_signature or x_signature != expected_sig)
SignatureOk(sec, raw_body, x_signature) ==
  /\ x_signature # NoSignature
  /\ x_signature = ComputeSignature(sec, raw_body)

(***************************************************************************)
(* Request bodies.  A raw body is identified with what json.loads makes    *)
(* of it: nothing (malformed), a JSON value that is no object, or an       *)
(* object with its field map.                                              *)
(***************************************************************************)
MalformedBody == [kind |-> "malformed"]

NonObjectBody(k) == [kind |-> k]

ObjectBody(fields) == [kind |-> "object", fields |-> fields]

\* await request.json(): TRUE when it returns, FALSE when it raises.
RequestJsonOk(raw_body) == raw_body.kind # "malformed"

\* payload.get("message_id") raises AttributeError unless payload is a dict.
IsDict(payload) == payload.kind = "object"

(***************************************************************************)
(* Persistent Store: storage.py, models.py.  The messages table is the     *)
(* sequence of its committed rows in rowid (insertion) order.              *)
(***************************************************************************)
HasKey(tbl, id) == \E i \in 1..Len(tbl) : tbl[i].message_id = id

\* The row the INSERT statement binds; created_at is utc_now_iso(), kept as
\* the clock reading in whole seconds.
NewRow(msg, clock) ==
  [message_id  |-> msg.message_id,
   from_msisdn |-> msg.from_,
   to_msisdn   |-> msg.to,
   ts          |-> msg.ts,
   text        |-> msg.text,
   created_at  |-> clock]

\* ExecuteInsert on a table declared without PRIMARY KEY: the row is always
\* added.
ExecuteInsertNoKey(tbl, row) ==
  [integrity_error |-> FALSE, tbl |-> Append(tbl, row)]

\* ExecuteInsert written as INSERT OR REPLACE: a row with the key is
\* deleted and the new row added.
ExecuteInsertOrReplace(tbl, row) ==
  [integrity_error |-> FALSE,
   tbl |-> Append(SelectSeq(tbl, LAMBDA old : old.message_id # row.message_id), row)]

\* cur.execute(INSERT ...) inside the connection's transaction.  The
\* PRIMARY KEY constraint of models.init_db makes the statement fail with
\* sqlite3.IntegrityError when the key is present; otherwise the
\* transaction's view of the table gains the row.
ExecuteInsert(tbl, row) ==
  IF HasKey(tbl, row.message_id)
  THEN [integrity_error |-> TRUE, tbl |-> tbl]
  ELSE [integrity_error |-> FALSE, tbl |-> Append(tbl, row)]

\* s LIKE pat from position k of pat and position i of s: % matches any
\* run of characters, _ any one character, anything else itself without
\* regard to ASCII case.
RECURSIVE LikeFrom(_, _, _, _)
LikeFrom(pat, k, s, i) ==
  IF k > Len(pat) THEN i = Len(s) + 1
  ELSE IF pat[k] = "%"
       THEN \/ k = Len(pat)
            \/ \E j \in i..(Len(s) + 1) : LikeFrom(pat, k + 1, s, j)
  ELSE /\ i <= Len(s)
       /\ \/ pat[k] = "_"
          \/ LowerChar(pat[k]) = LowerChar(s[i])
       /\ LikeFrom(pat, k + 1, s, i + 1)

Like(s, pat) == LikeFrom(pat, 1, s, 1)

\* COALESCE(text, '')
Coalesce(v) == IF v = None THEN <<>> ELSE v.s

\* RowMatches with the since clause written ts > ?.
RowMatchesSinceStrict(row, from_msisdn, since, q) ==
  /\ Truthy(from_msisdn) => row.from_msisdn = from_msisdn.s
  /\ Truthy(since) => StrLess(since.s, row.ts)
  /\ Truthy(q) => Like(Lower(Coalesce(row.text)), <<"%">> \o Lower(q.s) \o <<"%">>)

\* RowMatches with the clauses joined by OR.
RowMatchesAny(row, from_msisdn, since, q) ==
  \/ ~Truthy(from_msisdn) /\ ~Truthy(since) /\ ~Truthy(q)
  \/ Truthy(from_msisdn) /\ row.from_msisdn = from_msisdn.s
  \/ Truthy(since) /\ StrLeq(since.s, row.ts)
  \/ Truthy(q) /\ Like(Lower(Coalesce(row.text)), <<"%">> \o Lower(q.s) \o <<"%">>)

\* _build_filters: the WHERE clause applied to one row.  A filter that is
\* None or empty adds no clause.
RowMatches(row, from_msisdn, since, q) ==
  /\ Truthy(from_msisdn) => row.from_msisdn = from_msisdn.s
  /\ Truthy(since) => StrLeq(since.s, row.ts)
  /\ Truthy(q) => Like(Lower(Coalesce(row.text)), <<"%">> \o Lower(q.s) \o <<"%">>)

Where(tbl, from_msisdn, since, q) ==
  SelectSeq(tbl, LAMBDA row : RowMatches(row, from_msisdn, since, q))

\* count_messages
CountMessages(tbl, from_msisdn, since, q) ==
  Len(Where(tbl, from_msisdn, since, q))

\* RowBefore for ORDER BY ts ASC alone: rows with one ts stay in rowid
\* order.
RowBeforeTsOnly(a, b) == StrLess(a.ts, b.ts)

\* ORDER BY ts ASC, message_id ASC
RowBefore(a, b) ==
  \/ StrLess(a.ts, b.ts)
  \/ a.ts = b.ts /\ StrLess(a.message_id, b.message_id)

RECURSIVE InsertOrdered(_, _)
InsertOrdered(sorted, row) ==
  IF sorted = <<>> THEN <<row>>
  ELSE IF RowBefore(row, Head(sorted)) THEN <<row>> \o sorted
  ELSE <<Head(sorted)>> \o InsertOrdered(Tail(sorted), row)

RECURSIVE OrderBy(_)
OrderBy(rows) ==
  IF rows = <<>> THEN <<>>
  ELSE InsertOrdered(OrderBy(SubSeq(rows, 1, Len(rows) - 1)), rows[Len(rows)])

\* LimitOffset with the two bound parameters in the other order
\* (params + [offset, limit]).
LimitOffsetSwapped(rows, limit, offset) ==
  LET first == IF limit < 0 THEN 1 ELSE limit + 1
      last  == IF offset < 0 \/ first + offset - 1 > Len(rows)
               THEN Len(rows)
               ELSE first + offset - 1
  IN  SubSeq(rows, first, last)

\* LIMIT ? OFFSET ?  (SQLite: a negative limit is no limit, a negative
\* offset is 0)
LimitOffset(rows, limit, offset) ==
  LET first == IF offset < 0 THEN 1 ELSE offset + 1
      last  == IF limit < 0 \/ first + limit - 1 > Len(rows)
               THEN Len(rows)
               ELSE first + limit - 1
  IN  SubSeq(rows, first, last)

\* The dict built for each fetched row.
RowDict(r) ==
  [message_id |-> r.message_id,
   from       |-> r.from_msisdn,
   to         |-> r.to_msisdn,
   ts         |-> r.ts,
   text       |-> r.text,
   created_at |-> r.created_at]

\* fetch_messages: the rows the WHERE clause keeps, sorted, cut to the
\* page, as dicts.  Each stage is computed once, from the result of the
\* stage before it.
FetchMessages(tbl, from_msisdn, since, q, limit, offset) ==
  CHOOSE data \in
    {[i \in 1..Len(page) |-> RowDict(page[i])] :
       page \in {LimitOffset(sorted, limit, offset) :
                   sorted \in {OrderBy(rows) :
                                 rows \in {Where(tbl, from_msisdn, since, q)}}}}
    : TRUE

\* get_stats: SELECT COUNT(*) FROM messages
TotalMessages(tbl) == Len(tbl)

Senders(tbl) == {tbl[i].from_msisdn : i \in 1..Len(tbl)}

\* get_stats: SELECT COUNT(DISTINCT from_msisdn) FROM messages
SendersCount(tbl) == Cardinality(Senders(tbl))

\* COUNT(*) of one group of GROUP BY from_msisdn
SenderCount(tbl, sender) ==
  Cardinality({i \in 1..Len(tbl) : tbl[i].from_msisdn = sender})

\* LIMIT 10 of the top senders query.
TopSendersLimit == 10

\* get_stats: the results the top senders query may give.  ORDER BY cnt
\* DESC names no second key, so groups with one count come in an order SQL
\* leaves open; LIMIT 10 keeps the first ten.
TopSenders(tbl) ==
  LET n == SendersCount(tbl)
      orders == {o \in [1..n -> Senders(tbl)] :
                   /\ \A i, j \in 1..n : i # j => o[i] # o[j]
                   /\ \A i, j \in 1..n :
                        i < j => SenderCount(tbl, o[i]) >= SenderCount(tbl, o[j])}
      kept == IF n < TopSendersLimit THEN n ELSE TopSendersLimit
  IN  {[i \in 1..kept |-> [from |-> o[i], count |-> SenderCount(tbl, o[i])]]
         : o \in orders}

\* FirstMessageTs with the row taken in rowid order.
FirstMessageTsByRowid(tbl) ==
  IF tbl = <<>> THEN None ELSE Str(tbl[1].ts)

\* get_stats: SELECT ts ... ORDER BY ts ASC, message_id ASC LIMIT 1
FirstMessageTs(tbl) ==
  IF tbl = <<>> THEN None ELSE Str(OrderBy(tbl)[1].ts)

\* get_stats: SELECT ts ... ORDER BY ts DESC, message_id DESC LIMIT 1
LastMessageTs(tbl) ==
  IF tbl = <<>> THEN None ELSE Str(OrderBy(tbl)[Len(tbl)].ts)

(***************************************************************************)
(* Inputs: the strings, request bodies, signatures and query parameters    *)
(* the handlers are driven with.                                           *)
(***************************************************************************)
IdM1 == <<"m", "1">>

IdM2 == <<"m", "2">>

IdM3 == <<"m", "3">>

PhoneA == <<"+", "9", "1", "9", "8", "7", "6", "5", "4", "3", "2", "1", "0">>

PhoneB == <<"+", "1", "4", "1", "5", "5", "5", "5", "0", "1", "0", "0">>

PhoneMin == <<"+", "1", "2", "3", "4", "5", "6", "7", "8">>

PhoneMax ==
  <<"+", "1", "2", "3", "4", "5", "6", "7", "8", "9", "0", "1", "2", "3",
    "4", "5">>

PhoneShort == <<"+", "1", "2", "3", "4", "5", "6", "7">>

PhoneLong ==
  <<"+", "1", "2", "3", "4", "5", "6", "7", "8", "9", "0", "1", "2", "3",
    "4", "5", "6">>

PhoneZero == <<"+", "0", "1", "2", "3", "4", "5", "6", "7">>

PhoneNoPlus == <<"9", "1", "9", "8", "7", "6", "5", "4", "3", "2", "1", "0">>

PhoneAlpha == <<"+", "1", "2", "3", "4", "5", "6", "7", "a">>

PhoneNewline ==
  <<"+", "9", "1", "9", "8", "7", "6", "5", "4", "3", "2", "1", "0", "\n">>

Ts0 ==
  <<"2", "0", "2", "5", "-", "0", "1", "-", "1", "5", " ", "0", "9", ":",
    "0", "0", ":", "0", "0", "Z">>

Ts1 ==
  <<"2", "0", "2", "5", "-", "0", "1", "-", "1", "5", "T", "1", "0", ":",
    "0", "0", ":", "0", "0", "Z">>

Ts2 ==
  <<"2", "0", "2", "5", "-", "0", "1", "-", "1", "5", "T", "1", "0", ":",
    "0", "1", ":", "0", "0", "Z">>

TsNoZ ==
  <<"2", "0", "2", "5", "-", "0", "1", "-", "1", "5", "T", "1", "0", ":",
    "0", "0", ":", "0", "0">>

TsBadMonth ==
  <<"2", "0", "2", "5", "-", "1", "3", "-", "1", "5", "T", "1", "0", ":",
    "0", "0", ":", "0", "0", "Z">>

TsBadDay ==
  <<"2", "0", "2", "5", "-", "0", "2", "-", "3", "0", "T", "1", "0", ":",
    "0", "0", ":", "0", "0", "Z">>

TsJunk == <<"n", "o", "t", "a", "t", "i", "m", "e", "Z">>

TsOffsetZ ==
  <<"2", "0", "2", "5", "-", "0", "1", "-", "1", "5", "T", "1", "0", ":",
    "0", "0", ":", "0", "0", "+", "0", "5", ":", "3", "0", "Z">>

TextHello == <<"H", "e", "l", "l", "o", " ", "w", "o", "r", "l", "d">>

TextOther == <<"O", "t", "h", "e", "r", " ", "s", "e", "n", "d", "e", "r">>

TextSecond ==
  <<"S", "e", "c", "o", "n", "d", " ", "m", "e", "s", "s", "a", "g", "e">>

QHello == <<"h", "e", "l", "l", "o">>

QUpper == <<"H", "E", "L", "L", "O">>

QOther == <<"o", "t", "h", "e", "r">>

\* Not a substring of any text: TextHello has e where this has an underscore.
QWild == <<"h", "_", "l", "l", "o">>

QPercent == <<"%">>

\* Occurs in no text.
QAbsent == <<"x", "y", "z">>

\* Values of the q parameter.
QValues == {QHello, QUpper, QOther, QWild, QPercent, QAbsent, <<>>}

\* PhoneA as it arrives when the query string carries a bare + (decoded as
\* a space), and with a space after it.
PhoneSpace == <<" ">> \o PhoneNoPlus

PhoneATrail == PhoneA \o <<" ">>

PhoneNoPlusTrail == PhoneNoPlus \o <<" ">>

\* Values of the from parameter.
FromValues ==
  {PhoneA, PhoneB, PhoneNoPlus, PhoneSpace, PhoneATrail, PhoneNoPlusTrail,
   PhoneMin, PhoneNewline, <<" ">>, <<>>}

\* A prefix of Ts1 and Ts2: after Ts0, before both.
TsDay == <<"2", "0", "2", "5", "-", "0", "1", "-", "1", "5", "T">>

\* Values of the since parameter.
SinceValues == {Ts0, Ts1, Ts2, TsDay, <<>>}

\* A text of n characters.
TextOfLen(n) == [i \in 1..n |-> "a"]

\* The JSON object of a webhook payload with all five fields.
Payload(id, from, to, ts, text) ==
  ObjectBody([message_id |-> id, from |-> from, to |-> to, ts |-> ts,
              text |-> text])

\* The same object with one field left out.
Without(body, k) ==
  ObjectBody([f \in (DOMAIN body.fields) \ {k} |-> body.fields[f]])

\* The same object with one field changed.
With(body, k, v) ==
  ObjectBody([f \in DOMAIN body.fields |-> IF f = k THEN v ELSE body.fields[f]])

PayloadM1 == Payload(Str(IdM1), Str(PhoneA), Str(PhoneB), Str(Ts1), Str(TextHello))

\* message_id m1 again, every other field different, text left out.
PayloadM1Other ==
  Without(Payload(Str(IdM1), Str(PhoneB), Str(PhoneA), Str(Ts2), None), "text")

\* Same ts as PayloadM1.
PayloadM2 == Payload(Str(IdM2), Str(PhoneA), Str(PhoneB), Str(Ts1), Str(TextSecond))

\* Shortest and longest numbers, a space as date-time separator, null text.
PayloadM2Other == Payload(Str(IdM2), Str(PhoneMin), Str(PhoneMax), Str(Ts0), None)

\* Same ts as PayloadM1Other.
PayloadM3 == Payload(Str(IdM3), Str(PhoneB), Str(PhoneA), Str(Ts2), Str(TextOther))

\* The longest text.
PayloadM3Long ==
  Payload(Str(IdM3), Str(PhoneB), Str(PhoneA), Str(Ts2), Str(TextOfLen(MaxTextLen)))

\* A sender number followed by a newline.
PayloadM3Newline ==
  Payload(Str(IdM3), Str(PhoneNewline), Str(PhoneA), Str(Ts0), Str(TextHello))

\* Payloads that keep every rule of section 4.2 of the design.
WellFormedPayloads ==
  {PayloadM1, PayloadM1Other, PayloadM2, PayloadM2Other, PayloadM3, PayloadM3Long}

BadPhones == {PhoneShort, PhoneLong, PhoneZero, PhoneNoPlus, PhoneAlpha}

BadTimestamps == {TsNoZ, TsBadMonth, TsBadDay, TsJunk, TsOffsetZ}

\* JSON objects breaking one rule of the validator each.
BadPayloads ==
       {With(PayloadM1, "from", Str(ph)) : ph \in BadPhones}
  \cup {With(PayloadM1, "to", Str(ph)) : ph \in {PhoneShort, PhoneZero}}
  \cup {With(PayloadM1, "ts", Str(ts)) : ts \in BadTimestamps}
  \cup {Without(PayloadM1, k) : k \in {"message_id", "from", "to", "ts"}}
  \cup {With(PayloadM1, "message_id", Str(<<>>)),
        With(PayloadM1, "from", None),
        With(PayloadM1, "text", Str(TextOfLen(MaxTextLen + 1)))}

NonObjectBodies ==
  {NonObjectBody(k) : k \in {"array", "string", "number", "null"}}

\* The bodies of the ingestion specification.
Bodies ==
  {PayloadM1, PayloadM1Other, PayloadM2Other, PayloadM3Long, PayloadM3Newline}
    \cup BadPayloads \cup NonObjectBodies \cup {MalformedBody}

\* The secret of the deployment when it is configured, and a key that is
\* not the secret.
ConfiguredSecret == "testsecret"

OtherKey == "wrongsecret"

\* The X-Signature values a sender may attach to a body.
Signatures(body) ==
  {NoSignature,
   ComputeSignature(ConfiguredSecret, body),
   ComputeSignature(OtherKey, body),
   ComputeSignature("", body),
   ComputeSignature(ConfiguredSecret, IF body = PayloadM1 THEN PayloadM2 ELSE PayloadM1)}

WebhookRequests ==
  UNION {{[route |-> "webhook", body |-> b, x_signature |-> sg] : sg \in Signatures(b)}
           : b \in Bodies}

\* The webhook requests of the query specification: signed deliveries (two
\* of them share a ts with another message_id), an unsigned one, a signed
\* array.
QueryWebhookRequests ==
       {[route |-> "webhook", body |-> b,
         x_signature |-> ComputeSignature(ConfiguredSecret, b)]
          : b \in {PayloadM1, PayloadM1Other, PayloadM2, PayloadM2Other,
                   PayloadM3, NonObjectBody("array")}}
  \cup {[route |-> "webhook", body |-> PayloadM1, x_signature |-> NoSignature]}

\* The requests the concurrent handlers are driven with: signed deliveries
\* of m1 (two different payloads) and m2, and an unsigned one.
ConcRequests ==
       {[route |-> "webhook", body |-> b,
         x_signature |-> ComputeSignature(ConfiguredSecret, b)]
          : b \in {PayloadM1, PayloadM1Other, PayloadM2}}
  \cup {[route |-> "webhook", body |-> PayloadM1, x_signature |-> NoSignature]}

\* The deliveries made while other requests are being served: two messages
\* of different senders and ts.
ServeWebhookRequests ==
  {[route |-> "webhook", body |-> b,
    x_signature |-> ComputeSignature(ConfiguredSecret, b)]
     : b \in {PayloadM1, PayloadM3}}

\* GET /messages with the given query parameters; None is a parameter left
\* out of the query string.
MessagesRequest(limit, offset, from, since, q) ==
  [route |-> "messages", limit |-> limit, offset |-> offset, from |-> from,
   since |-> since, q |-> q]

\* Every combination of a few values of each parameter.
PagedRequests ==
  [route  : {"messages"},
   limit  : {Num(0), Num(1), Num(2), Num(50), Num(101)},
   offset : {Num(-1), Num(0), Num(1), Num(2)},
   from   : {None, Str(PhoneA), Str(PhoneNoPlus)},
   since  : {None, Str(Ts1)},
   q      : {None, Str(QHello)}]

\* Requests with limit or offset left out or at the edge of its range.
EdgeRequests ==
  {MessagesRequest(l, o, None, None, None) :
     l \in {None, Num(100)}, o \in {None, Num(0), Num(1)}}
    \cup {MessagesRequest(Num(1), None, None, None, None)}

\* Requests with one filter, or all three, and a page that holds every
\* match.
FilterRequests ==
       {MessagesRequest(None, None, Str(f), None, None) : f \in FromValues}
  \cup {MessagesRequest(None, None, None, Str(t), None) : t \in SinceValues}
  \cup {MessagesRequest(None, None, None, None, Str(q)) : q \in QValues}
  \cup {MessagesRequest(None, None, Str(PhoneB), Str(Ts2), Str(q)) :
          q \in {QOther, QWild}}

MessagesRequests == PagedRequests \cup EdgeRequests \cup FilterRequests

\* The queries made while deliveries are being served.
ServeMessagesRequests ==
  {MessagesRequest(None, None, None, None, None),
   MessagesRequest(Num(1), Num(1), None, None, None)}

(***************************************************************************)
(* State.                                                                  *)
(***************************************************************************)
VARIABLES
  secret,     \* config.WEBHOOK_SECRET, read once from the environment
  store,      \* the committed rows of the messages table, in rowid order
  now,        \* the wall clock, in whole seconds
  writeLock,  \* the handler whose connection holds SQLite's write lock, or 0
  pc,         \* where each handler is: idle, insert, commit, fetch,
              \* senders, top, first, last, done
  req,        \* the request each handler is serving
  msg,        \* webhook: the validated WebhookMessage
  txn,        \* insert_message: the table as the open transaction sees it
  query,      \* get_messages, get_stats: the local variables set so far
  result,     \* webhook: the result variable passed to inc_webhook
  resp,       \* the response each handler has sent for its request
  store0,     \* history: the committed table when the request arrived
  inserts,    \* history: INSERT statements executed for the request
  lock,       \* metrics._lock: the thread that holds it, or 0
  http_requests_total,     \* metrics._http_requests_total
  webhook_requests_total,  \* metrics._webhook_requests_total
  call        \* the call into metrics each thread is running

serviceVars ==
  <<secret, store, now, writeLock, pc, req, msg, txn, query, result, resp,
    store0, inserts>>

metricsVars == <<lock, http_requests_total, webhook_requests_total, call>>

vars ==
  <<secret, store, now, writeLock, pc, req, msg, txn, query, result, resp,
    store0, inserts, lock, http_requests_total, webhook_requests_total, call>>

Handlers == 1..NumHandlers

NoHandler == 0

NoRequest == [route |-> "none"]

NoMessage == [message_id |-> <<>>]

NoQuery == [total |-> 0]

NoResponse == [status |-> 0]

NoCall == [op |-> "none"]

\* The state after import and on_startup: init_db has created an empty
\* table, the secret is whatever the environment held, the counters of
\* metrics are empty and its lock is free.
Init ==
  /\ secret \in {"", ConfiguredSecret}
  /\ lock = NoHandler
  /\ http_requests_total = <<>>
  /\ webhook_requests_total = <<>>
  /\ call = [p \in Handlers |-> NoCall]
  /\ store = <<>>
  /\ now = 0
  /\ writeLock = NoHandler
  /\ pc = [p \in Handlers |-> "idle"]
  /\ req = [p \in Handlers |-> NoRequest]
  /\ msg = [p \in Handlers |-> NoMessage]
  /\ txn = [p \in Handlers |-> <<>>]
  /\ query = [p \in Handlers |-> NoQuery]
  /\ result = [p \in Handlers |-> "unknown"]
  /\ resp = [p \in Handlers |-> NoResponse]
  /\ store0 = [p \in Handlers |-> <<>>]
  /\ inserts = [p \in Handlers |-> 0]

\* The clock advances.
Tick ==
  /\ now < MaxClock
  /\ now' = now + 1
  /\ UNCHANGED <<secret, store, writeLock, pc, req, msg, txn, query, result,
                 resp, store0, inserts>>
  /\ UNCHANGED metricsVars

(***************************************************************************)
(* Counter registry: app/metrics.py                                        *)
(***************************************************************************)
\* str(n) of a natural number.
RECURSIVE DecimalDigits(_)
DecimalDigits(n) ==
  IF n < 10
  THEN <<Ascii[17 + n]>>
  ELSE Append(DecimalDigits(n \div 10), Ascii[17 + (n % 10)])

\* A dict is the sequence of its items in insertion order.
Keys(d) == {d[i].key : i \in 1..Len(d)}

\* d[k] of a key that is present.
GetItem(d, k) == d[CHOOSE i \in 1..Len(d) : d[i].key = k].count

\* d[k] = v
SetItem(d, k, v) ==
  IF k \in Keys(d)
  THEN [i \in 1..Len(d) |->
          IF d[i].key = k THEN [key |-> k, count |-> v] ELSE d[i]]
  ELSE Append(d, [key |-> k, count |-> v])

\* defaultdict(int).__missing__: reading an absent key inserts it with 0.
Missing(d, k) == IF k \in Keys(d) THEN d ELSE SetItem(d, k, 0)

\* Increment written d[k] = 1.
IncrementAssigns(d, k) == SetItem(Missing(d, k), k, 1)

\* d[k] += 1, run without interruption.
Increment(d, k) ==
  LET e == Missing(d, k)
  IN  SetItem(e, k, GetItem(e, k) + 1)

\* The sum of the counts of a dict.
RECURSIVE Counted(_)
Counted(d) == IF d = <<>> THEN 0 ELSE Head(d).count + Counted(Tail(d))

\* The key of _http_requests_total for a request.
HttpKey(path, status) == <<path, DecimalDigits(status)>>

\* The key of _webhook_requests_total for a result.
WebhookKey(res) == <<res>>

\* "# TYPE <name> counter"
TypeLine(name) == [metric |-> name, type |-> "counter"]

\* '<name>{<labels>} <count>'
SampleLine(name, labels, count) ==
  [metric |-> name, labels |-> labels, value |-> DecimalDigits(count)]

\* The lines of one loop over the items of a dict.
SampleLines(name, d) ==
  [i \in 1..Len(d) |-> SampleLine(name, d[i].key, d[i].count)]

\* The text render_prometheus returns for the two dicts, line by line.
RenderPrometheus(http, webhook) ==
  <<TypeLine("http_requests_total")>>
    \o SampleLines("http_requests_total", http)
    \o <<TypeLine("webhook_requests_total")>>
    \o SampleLines("webhook_requests_total", webhook)

\* inc_webhook(result) called by a handler, from the with statement to the
\* release of the lock.
inc_webhook(res) ==
  /\ webhook_requests_total' =
       Increment(webhook_requests_total, WebhookKey(res))
  /\ UNCHANGED <<lock, http_requests_total, call>>

\* Acquire that does not wait for the holder of the lock.
AcquireNoWait(t) == lock' = t

\* with _lock: the thread waits until the lock is free and takes it.
Acquire(t) == lock = NoHandler /\ lock' = t

\* The requests counted by the middleware and the results counted by
\* webhook in the calls of the registry's own specification.
CountedRequests ==
  {[path |-> "/webhook", status |-> 200], [path |-> "/webhook", status |-> 401],
   [path |-> "/metrics", status |-> 200]}

CountedResults == {"created", "duplicate"}

\* inc_http(path, status) up to the with statement.
IncHttpLock(t, path, status) ==
  /\ call[t] = NoCall
  /\ Acquire(t)
  /\ call' = [call EXCEPT ![t] =
                [op |-> "inc_http", key |-> HttpKey(path, status), at |-> "load"]]
  /\ UNCHANGED <<http_requests_total, webhook_requests_total>>
  /\ UNCHANGED serviceVars

\* inc_webhook(result) up to the with statement.
IncWebhookLock(t, res) ==
  /\ call[t] = NoCall
  /\ Acquire(t)
  /\ call' = [call EXCEPT ![t] =
                [op |-> "inc_webhook", key |-> WebhookKey(res), at |-> "load"]]
  /\ UNCHANGED <<http_requests_total, webhook_requests_total>>
  /\ UNCHANGED serviceVars

\* The left half of d[key] += 1: the value is read, an absent key is
\* inserted with 0.
IncLoad(t) ==
  /\ call[t].op \in {"inc_http", "inc_webhook"}
  /\ call[t].at = "load"
  /\ LET k == call[t].key
     IN  IF call[t].op = "inc_http"
         THEN LET d == Missing(http_requests_total, k)
              IN  /\ http_requests_total' = d
                  /\ call' = [call EXCEPT ![t] =
                                [op |-> "inc_http", key |-> k, at |-> "store",
                                 loaded |-> GetItem(d, k)]]
                  /\ UNCHANGED webhook_requests_total
         ELSE LET d == Missing(webhook_requests_total, k)
              IN  /\ webhook_requests_total' = d
                  /\ call' = [call EXCEPT ![t] =
                                [op |-> "inc_webhook", key |-> k, at |-> "store",
                                 loaded |-> GetItem(d, k)]]
                  /\ UNCHANGED http_requests_total
  /\ UNCHANGED lock
  /\ UNCHANGED serviceVars

\* The right half of d[key] += 1: the value read plus one is stored; the
\* with block ends and the function returns.
IncStore(t) ==
  /\ call[t].op \in {"inc_http", "inc_webhook"}
  /\ call[t].at = "store"
  /\ LET k == call[t].key
         v == call[t].loaded + 1
     IN  IF call[t].op = "inc_http"
         THEN /\ http_requests_total' = SetItem(http_requests_total, k, v)
              /\ UNCHANGED webhook_requests_total
         ELSE /\ webhook_requests_total' = SetItem(webhook_requests_total, k, v)
              /\ UNCHANGED http_requests_total
  /\ lock' = NoHandler
  /\ call' = [call EXCEPT ![t] =
                [op |-> call[t].op, key |-> call[t].key, at |-> "returned"]]
  /\ UNCHANGED serviceVars

\* render_prometheus up to the with statement: the first TYPE line.
RenderStart(t) ==
  /\ call[t] = NoCall
  /\ call' = [call EXCEPT ![t] =
                [op |-> "render", at |-> "lock",
                 lines |-> <<TypeLine("http_requests_total")>>]]
  /\ UNCHANGED <<lock, http_requests_total, webhook_requests_total>>
  /\ UNCHANGED serviceVars

\* The lock is taken and the loop over _http_requests_total runs.
RenderHttp(t) ==
  /\ call[t].op = "render"
  /\ call[t].at = "lock"
  /\ Acquire(t)
  /\ call' = [call EXCEPT ![t] =
                [op |-> "render", at |-> "webhook",
                 lines |-> call[t].lines
                             \o SampleLines("http_requests_total",
                                            http_requests_total)]]
  /\ UNCHANGED <<http_requests_total, webhook_requests_total>>
  /\ UNCHANGED serviceVars

\* The second TYPE line and the loop over _webhook_requests_total; the with
\* block ends and the joined lines are returned.
RenderWebhook(t) ==
  /\ call[t].op = "render"
  /\ call[t].at = "webhook"
  /\ lock' = NoHandler
  /\ call' = [call EXCEPT ![t] =
                [op |-> "render", at |-> "returned",
                 lines |-> call[t].lines
                             \o <<TypeLine("webhook_requests_total")>>
                             \o SampleLines("webhook_requests_total",
                                            webhook_requests_total)]]
  /\ UNCHANGED <<http_requests_total, webhook_requests_total>>
  /\ UNCHANGED serviceVars

(***************************************************************************)
(* Ingestion Handler: main.webhook                                         *)
(***************************************************************************)
\* WebhookChecks with the body parsed and validated before the signature
\* is verified.
WebhookChecksParseFirst(sec, r) ==
  IF sec = ""
  THEN [status |-> 503, result |-> "secret_missing"]
  ELSE IF ~RequestJsonOk(r.body)
  THEN [status |-> 422, result |-> "validation_error"]
  ELSE IF ~IsDict(r.body)
  THEN [status |-> 500, result |-> "unknown"]
  ELSE IF ~ModelOk(r.body.fields)
  THEN [status |-> 422, result |-> "validation_error"]
  ELSE IF ~ValidateFields(WebhookMessage(r.body.fields))
  THEN [status |-> 422, result |-> "validation_error"]
  ELSE IF ~SignatureOk(sec, r.body, r.x_signature)
  THEN [status |-> 401, result |-> "invalid_signature"]
  ELSE [status |-> 0, result |-> "unknown"]

\* The checks of webhook before the insert, in the order of the code.
\* status 0: every check passed.  A body that parses to something other
\* than an object makes payload.get raise AttributeError outside the two
\* try blocks: the request ends with a 500 response and result "unknown".
WebhookChecks(sec, r) ==
  IF sec = ""
  THEN [status |-> 503, result |-> "secret_missing"]
  ELSE IF ~SignatureOk(sec, r.body, r.x_signature)
  THEN [status |-> 401, result |-> "invalid_signature"]
  ELSE IF ~RequestJsonOk(r.body)
  THEN [status |-> 422, result |-> "validation_error"]
  ELSE IF ~IsDict(r.body)
  THEN [status |-> 500, result |-> "unknown"]
  ELSE IF ~ModelOk(r.body.fields)
  THEN [status |-> 422, result |-> "validation_error"]
  ELSE IF ~ValidateFields(WebhookMessage(r.body.fields))
  THEN [status |-> 422, result |-> "validation_error"]
  ELSE [status |-> 0, result |-> "unknown"]

\* A handler takes a webhook request and runs it up to the call of
\* insert_message, or to the error response and the finally block, which
\* counts the result.
WebhookBegin(p, r) ==
  /\ pc[p] = "idle"
  /\ Counted(webhook_requests_total) < MaxCounted
  /\ req' = [req EXCEPT ![p] = r]
  /\ store0' = [store0 EXCEPT ![p] = store]
  /\ inserts' = [inserts EXCEPT ![p] = 0]
  /\ query' = [query EXCEPT ![p] = NoQuery]
  /\ txn' = [txn EXCEPT ![p] = <<>>]
  /\ LET c == WebhookChecks(secret, r)
     IN  IF c.status = 0
         THEN /\ pc' = [pc EXCEPT ![p] = "insert"]
              /\ msg' = [msg EXCEPT ![p] = WebhookMessage(r.body.fields)]
              /\ result' = [result EXCEPT ![p] = "unknown"]
              /\ resp' = [resp EXCEPT ![p] = NoResponse]
              /\ UNCHANGED metricsVars
         ELSE /\ pc' = [pc EXCEPT ![p] = "done"]
              /\ msg' = [msg EXCEPT ![p] = NoMessage]
              /\ result' = [result EXCEPT ![p] = c.result]
              /\ resp' = [resp EXCEPT ![p] = [status |-> c.status]]
              /\ inc_webhook(c.result)
  /\ UNCHANGED <<secret, store, now, writeLock>>

\* return {"status": "ok"}
OkResponse == [status |-> 200, json |-> [status |-> "ok"]]

\* InsertExecute with the key looked up outside the write lock: the
\* statement does not wait for the connection that holds the lock.
InsertExecuteNoLock(p) ==
  /\ pc[p] = "insert"
  /\ inserts' = [inserts EXCEPT ![p] = @ + 1]
  /\ LET x == ExecuteInsert(store, NewRow(msg[p], now))
     IN  IF x.integrity_error
         THEN /\ pc' = [pc EXCEPT ![p] = "done"]
              /\ result' = [result EXCEPT ![p] = "duplicate"]
              /\ resp' = [resp EXCEPT ![p] = OkResponse]
              /\ UNCHANGED <<txn, writeLock>>
              /\ inc_webhook("duplicate")
         ELSE /\ pc' = [pc EXCEPT ![p] = "commit"]
              /\ txn' = [txn EXCEPT ![p] = x.tbl]
              /\ writeLock' = p
              /\ UNCHANGED <<result, resp>>
              /\ UNCHANGED metricsVars
  /\ UNCHANGED <<secret, store, now, req, msg, query, store0>>

\* InsertExecute for an insert_message that runs the statement again after
\* IntegrityError instead of returning (False, True).
InsertExecuteRetries(p) ==
  /\ pc[p] = "insert"
  /\ writeLock = NoHandler
  /\ LET x == ExecuteInsert(store, NewRow(msg[p], now))
     IN  IF x.integrity_error
         THEN UNCHANGED <<pc, result, resp, txn, writeLock, inserts>>
         ELSE /\ pc' = [pc EXCEPT ![p] = "commit"]
              /\ txn' = [txn EXCEPT ![p] = x.tbl]
              /\ writeLock' = p
              /\ inserts' = [inserts EXCEPT ![p] = @ + 1]
              /\ UNCHANGED <<result, resp>>
  /\ UNCHANGED <<secret, store, now, req, msg, query, store0>>
  /\ UNCHANGED metricsVars

\* insert_message up to the INSERT statement.  The statement needs the
\* write lock of the database file; while another connection holds it the
\* busy handler keeps this one waiting.  On IntegrityError the function
\* returns (False, True), the connection is closed and the handler answers.
InsertExecute(p) ==
  /\ pc[p] = "insert"
  /\ writeLock = NoHandler
  /\ inserts' = [inserts EXCEPT ![p] = @ + 1]
  /\ LET x == ExecuteInsert(store, NewRow(msg[p], now))
     IN  IF x.integrity_error
         THEN /\ pc' = [pc EXCEPT ![p] = "done"]
              /\ result' = [result EXCEPT ![p] = "duplicate"]
              /\ resp' = [resp EXCEPT ![p] = OkResponse]
              /\ UNCHANGED <<txn, writeLock>>
              /\ inc_webhook("duplicate")
         ELSE /\ pc' = [pc EXCEPT ![p] = "commit"]
              /\ txn' = [txn EXCEPT ![p] = x.tbl]
              /\ writeLock' = p
              /\ UNCHANGED <<result, resp>>
              /\ UNCHANGED metricsVars
  /\ UNCHANGED <<secret, store, now, req, msg, query, store0>>

\* InsertCommit followed by an exception in the handler (such as unpacking
\* a return value that is no pair): the row is committed and the request
\* is answered 500.
InsertCommitThenRaise(p) ==
  /\ pc[p] = "commit"
  /\ store' = txn[p]
  /\ writeLock' = NoHandler
  /\ txn' = [txn EXCEPT ![p] = <<>>]
  /\ pc' = [pc EXCEPT ![p] = "done"]
  /\ result' = [result EXCEPT ![p] = "unknown"]
  /\ resp' = [resp EXCEPT ![p] = [status |-> 500]]
  /\ UNCHANGED <<secret, now, req, msg, query, store0, inserts>>
  /\ inc_webhook("unknown")

\* The INSERT statement finds the write lock held and the busy timeout of
\* the connection (sqlite3.connect's default) runs out: the statement
\* raises OperationalError, which insert_message does not catch; the
\* connection is closed, webhook counts the result "unknown" and the
\* request is answered 500.
InsertBusy(p) ==
  /\ pc[p] = "insert"
  /\ writeLock # NoHandler
  /\ inserts' = [inserts EXCEPT ![p] = @ + 1]
  /\ pc' = [pc EXCEPT ![p] = "done"]
  /\ result' = [result EXCEPT ![p] = "unknown"]
  /\ resp' = [resp EXCEPT ![p] = [status |-> 500]]
  /\ UNCHANGED <<secret, store, now, writeLock, req, msg, txn, query, store0>>
  /\ inc_webhook("unknown")

\* conn.commit(), return (True, False), close, and the handler answers.
InsertCommit(p) ==
  /\ pc[p] = "commit"
  /\ store' = txn[p]
  /\ writeLock' = NoHandler
  /\ txn' = [txn EXCEPT ![p] = <<>>]
  /\ pc' = [pc EXCEPT ![p] = "done"]
  /\ result' = [result EXCEPT ![p] = "created"]
  /\ resp' = [resp EXCEPT ![p] = OkResponse]
  /\ UNCHANGED <<secret, now, req, msg, query, store0, inserts>>
  /\ inc_webhook("created")

(***************************************************************************)
(* Query Handler: main.get_messages                                        *)
(***************************************************************************)
\* The defaults of the limit and offset parameters.
DefaultLimit == 50

DefaultOffset == 0

\* The value FastAPI binds to an integer parameter.
Bound(param, default) == IF param = None THEN default ELSE param.n

\* PageParamsOk with the upper check written limit > 101.
PageParamsOkOffByOne(limit, offset) == limit >= 1 /\ limit <= 101 /\ offset >= 0

\* TRUE when limit and offset pass the checks of get_messages.
PageParamsOk(limit, offset) == limit >= 1 /\ limit <= 100 /\ offset >= 0

\* NormalizeFrom without the branch that adds the +.
NormalizeFromStripOnly(from_msisdn) ==
  IF ~Truthy(from_msisdn) THEN from_msisdn
  ELSE Str(Strip(from_msisdn.s))

\* The from filter as passed to the store.
NormalizeFrom(from_msisdn) ==
  IF ~Truthy(from_msisdn) THEN from_msisdn
  ELSE LET v == Strip(from_msisdn.s)
       IN  IF v # <<>> /\ ~StartsWith(v, "+") /\ IsDigit(v[1])
           THEN Str(<<"+">> \o v)
           ELSE Str(v)

\* get_messages up to the return of count_messages, or the 422 response.
GetMessagesBegin(p, r) ==
  /\ pc[p] = "idle"
  /\ req' = [req EXCEPT ![p] = r]
  /\ store0' = [store0 EXCEPT ![p] = store]
  /\ inserts' = [inserts EXCEPT ![p] = 0]
  /\ msg' = [msg EXCEPT ![p] = NoMessage]
  /\ txn' = [txn EXCEPT ![p] = <<>>]
  /\ result' = [result EXCEPT ![p] = "unknown"]
  /\ LET limit  == Bound(r.limit, DefaultLimit)
         offset == Bound(r.offset, DefaultOffset)
     IN  IF PageParamsOk(limit, offset)
         THEN LET f == NormalizeFrom(r.from)
              IN  /\ pc' = [pc EXCEPT ![p] = "fetch"]
                  /\ query' = [query EXCEPT ![p] =
                                 [limit  |-> limit,
                                  offset |-> offset,
                                  from   |-> f,
                                  total  |-> CountMessages(store, f, r.since, r.q)]]
                  /\ resp' = [resp EXCEPT ![p] = NoResponse]
         ELSE /\ pc' = [pc EXCEPT ![p] = "done"]
              /\ query' = [query EXCEPT ![p] = NoQuery]
              /\ resp' = [resp EXCEPT ![p] = [status |-> 422]]
  /\ UNCHANGED <<secret, store, now, writeLock>>
  /\ UNCHANGED metricsVars

\* GetMessagesFetch reading the rows of a transaction that is not yet
\* committed (read_uncommitted on a shared cache).
GetMessagesFetchDirty(p) ==
  /\ pc[p] = "fetch"
  /\ pc' = [pc EXCEPT ![p] = "done"]
  /\ resp' = [resp EXCEPT ![p] =
                [status |-> 200,
                 data   |-> FetchMessages(IF writeLock = NoHandler
                                            THEN store ELSE txn[writeLock],
                                          query[p].from, req[p].since,
                                          req[p].q, query[p].limit,
                                          query[p].offset),
                 total  |-> query[p].total,
                 limit  |-> query[p].limit,
                 offset |-> query[p].offset]]
  /\ UNCHANGED <<secret, store, now, writeLock, req, msg, txn, query, result,
                 store0, inserts>>
  /\ UNCHANGED metricsVars

\* fetch_messages and the response envelope.
GetMessagesFetch(p) ==
  /\ pc[p] = "fetch"
  /\ pc' = [pc EXCEPT ![p] = "done"]
  /\ resp' = [resp EXCEPT ![p] =
                [status |-> 200,
                 data   |-> FetchMessages(store, query[p].from, req[p].since,
                                          req[p].q, query[p].limit,
                                          query[p].offset),
                 total  |-> query[p].total,
                 limit  |-> query[p].limit,
                 offset |-> query[p].offset]]
  /\ UNCHANGED <<secret, store, now, writeLock, req, msg, txn, query, result,
                 store0, inserts>>
  /\ UNCHANGED metricsVars

(***************************************************************************)
(* Stats Handler: main.stats                                               *)
(***************************************************************************)
\* get_stats up to the first query: SELECT COUNT(*).  The connection runs
\* each SELECT as a statement of its own, outside any transaction, so each
\* reads the rows committed when it runs.
StatsTotal(p) ==
  /\ pc[p] = "idle"
  /\ pc' = [pc EXCEPT ![p] = "senders"]
  /\ req' = [req EXCEPT ![p] = [route |-> "stats"]]
  /\ store0' = [store0 EXCEPT ![p] = store]
  /\ query' = [query EXCEPT ![p] = [total_messages |-> TotalMessages(store)]]
  /\ resp' = [resp EXCEPT ![p] = NoResponse]
  /\ UNCHANGED <<secret, store, now, writeLock, msg, txn, result, inserts>>
  /\ UNCHANGED metricsVars

\* SELECT COUNT(DISTINCT from_msisdn)
StatsSenders(p) ==
  /\ pc[p] = "senders"
  /\ pc' = [pc EXCEPT ![p] = "top"]
  /\ query' = [query EXCEPT ![p] =
                 [total_messages |-> query[p].total_messages,
                  senders_count  |-> SendersCount(store)]]
  /\ UNCHANGED <<secret, store, now, writeLock, req, msg, txn, result, resp,
                 store0, inserts>>
  /\ UNCHANGED metricsVars

\* StatsTop reading the rows of a transaction that is not yet committed
\* (read_uncommitted on a shared cache).
StatsTopDirty(p) ==
  /\ pc[p] = "top"
  /\ pc' = [pc EXCEPT ![p] = "first"]
  /\ \E top \in TopSenders(IF writeLock = NoHandler THEN store ELSE txn[writeLock]) :
       query' = [query EXCEPT ![p] =
                   [total_messages      |-> query[p].total_messages,
                    senders_count       |-> query[p].senders_count,
                    messages_per_sender |-> top]]
  /\ UNCHANGED <<secret, store, now, writeLock, req, msg, txn, result, resp,
                 store0, inserts>>
  /\ UNCHANGED metricsVars

\* The top senders query.
StatsTop(p) ==
  /\ pc[p] = "top"
  /\ pc' = [pc EXCEPT ![p] = "first"]
  /\ \E top \in TopSenders(store) :
       query' = [query EXCEPT ![p] =
                   [total_messages      |-> query[p].total_messages,
                    senders_count       |-> query[p].senders_count,
                    messages_per_sender |-> top]]
  /\ UNCHANGED <<secret, store, now, writeLock, req, msg, txn, result, resp,
                 store0, inserts>>
  /\ UNCHANGED metricsVars

\* The first message query.
StatsFirst(p) ==
  /\ pc[p] = "first"
  /\ pc' = [pc EXCEPT ![p] = "last"]
  /\ query' = [query EXCEPT ![p] =
                 [total_messages      |-> query[p].total_messages,
                  senders_count       |-> query[p].senders_count,
                  messages_per_sender |-> query[p].messages_per_sender,
                  first_ts            |-> FirstMessageTs(store)]]
  /\ UNCHANGED <<secret, store, now, writeLock, req, msg, txn, result, resp,
                 store0, inserts>>
  /\ UNCHANGED metricsVars

\* The last message query, conn.close() and the response.
StatsLast(p) ==
  /\ pc[p] = "last"
  /\ pc' = [pc EXCEPT ![p] = "done"]
  /\ resp' = [resp EXCEPT ![p] =
                [status              |-> 200,
                 total_messages      |-> query[p].total_messages,
                 senders_count       |-> query[p].senders_count,
                 messages_per_sender |-> query[p].messages_per_sender,
                 first_message_ts    |-> query[p].first_ts,
                 last_message_ts     |-> LastMessageTs(store)]]
  /\ UNCHANGED <<secret, store, now, writeLock, req, msg, txn, query, result,
                 store0, inserts>>
  /\ UNCHANGED metricsVars

\* The handler function has returned: the worker is free for the next
\* request.
Return(p) ==
  /\ pc[p] = "done"
  /\ pc' = [pc EXCEPT ![p] = "idle"]
  /\ req' = [req EXCEPT ![p] = NoRequest]
  /\ msg' = [msg EXCEPT ![p] = NoMessage]
  /\ query' = [query EXCEPT ![p] = NoQuery]
  /\ result' = [result EXCEPT ![p] = "unknown"]
  /\ resp' = [resp EXCEPT ![p] = NoResponse]
  /\ store0' = [store0 EXCEPT ![p] = <<>>]
  /\ inserts' = [inserts EXCEPT ![p] = 0]
  /\ UNCHANGED <<secret, store, now, writeLock, txn>>
  /\ UNCHANGED metricsVars

(***************************************************************************)
(* Specifications.                                                         *)
(***************************************************************************)
\* Ingestion: one handler serving one webhook request after the other.
Next ==
  \/ Tick
  \/ \E r \in WebhookRequests : WebhookBegin(1, r)
  \/ InsertExecute(1)
  \/ InsertCommit(1)
  \/ Return(1)

Spec == Init /\ [][Next]_vars

\* Ingestion and query: one handler serving webhook, GET /messages and
\* GET /stats requests one after the other.
QueryNext ==
  \/ Tick
  \/ \E r \in QueryWebhookRequests : WebhookBegin(1, r)
  \/ InsertExecute(1)
  \/ InsertCommit(1)
  \/ \E r \in MessagesRequests : GetMessagesBegin(1, r)
  \/ GetMessagesFetch(1)
  \/ StatsTotal(1)
  \/ StatsSenders(1)
  \/ StatsTop(1)
  \/ StatsFirst(1)
  \/ StatsLast(1)
  \/ Return(1)

QuerySpec == Init /\ [][QueryNext]_vars

\* NumHandlers handlers, each serving one webhook request, interleaved at
\* the statements that touch the database.  The clock stands still: its
\* reading only stamps created_at.
ConcNext ==
  \/ \E p \in Handlers : \E r \in ConcRequests : WebhookBegin(p, r)
  \/ \E p \in Handlers : InsertExecute(p)
  \/ \E p \in Handlers : InsertCommit(p)

ConcSpec == Init /\ [][ConcNext]_vars

\* NumHandlers handlers serving requests one after the other, interleaved
\* at the statements that touch the database: one of them serves the
\* GET /messages and GET /stats requests, the others the webhook
\* deliveries.  A writer that finds the lock held gets it later or gives up
\* when its busy timeout runs out.  The clock stands still.
Reader == 1

Writers == Handlers \ {Reader}

Continue(p) ==
  \/ InsertExecute(p)
  \/ InsertBusy(p)
  \/ InsertCommit(p)
  \/ GetMessagesFetch(p)
  \/ StatsSenders(p)
  \/ StatsTop(p)
  \/ StatsFirst(p)
  \/ StatsLast(p)

ServeNext ==
  \/ \E p \in Writers : \E r \in ServeWebhookRequests : WebhookBegin(p, r)
  \/ \E r \in ServeMessagesRequests : GetMessagesBegin(Reader, r)
  \/ StatsTotal(Reader)
  \/ \E p \in Handlers : Continue(p)
  \/ \E p \in Handlers : Return(p)

\* A handler that has taken a request keeps running: the event loop and the
\* worker threads get processor time.  Nothing obliges a request to arrive.
ServeSpec ==
  /\ Init
  /\ [][ServeNext]_vars
  /\ \A p \in Handlers : WF_vars(Continue(p))

\* The registry on its own: NumHandlers threads, each making one call of
\* inc_http, inc_webhook or render_prometheus, interleaved at the lock and
\* at the two halves of the increment.
MetricsNext ==
  \/ \E t \in Handlers : \E r \in CountedRequests :
       IncHttpLock(t, r.path, r.status)
  \/ \E t \in Handlers : \E res \in CountedResults : IncWebhookLock(t, res)
  \/ \E t \in Handlers : IncLoad(t)
  \/ \E t \in Handlers : IncStore(t)
  \/ \E t \in Handlers : RenderStart(t)
  \/ \E t \in Handlers : RenderHttp(t)
  \/ \E t \in Handlers : RenderWebhook(t)

MetricsSpec == Init /\ [][MetricsNext]_vars

(***************************************************************************)
(* Vocabulary of the properties.                                           *)
(***************************************************************************)
Done(p) == pc[p] = "done"

WebhookDone(p) == Done(p) /\ req[p].route = "webhook"

MessagesDone(p) == Done(p) /\ req[p].route = "messages"

\* The request carries the hex HMAC-SHA256 of its body under the secret.
CorrectlySigned(r) ==
  r.x_signature = [alg |-> "hmac-sha256", key |-> secret, msg |-> r.body]

\* '+' followed by 8 to 15 digits, the first of them not 0, and nothing
\* else.
StrictE164(s) ==
  /\ Len(s) >= 9
  /\ Len(s) <= 16
  /\ s[1] = "+"
  /\ s[2] \in {"1", "2", "3", "4", "5", "6", "7", "8", "9"}
  /\ \A i \in 3..Len(s) :
       s[i] \in {"0", "1", "2", "3", "4", "5", "6", "7", "8", "9"}

\* Ends in a literal Z and is a date-time once the Z is read as +00:00.
StrictTs(ts) ==
  /\ Len(ts) >= 1
  /\ ts[Len(ts)] = "Z"
  /\ FromIsoFormatOk(SubSeq(ts, 1, Len(ts) - 1) \o <<"+", "0", "0", ":", "0", "0">>)

IsString(fields, k) == k \in DOMAIN fields /\ fields[k].t = "str"

\* The body is a JSON object that keeps every rule of the Payload
\* Validator as the design states them.
ValidPayload(body) ==
  /\ body.kind = "object"
  /\ IsString(body.fields, "message_id")
  /\ body.fields["message_id"].s # <<>>
  /\ IsString(body.fields, "from")
  /\ StrictE164(body.fields["from"].s)
  /\ IsString(body.fields, "to")
  /\ StrictE164(body.fields["to"].s)
  /\ IsString(body.fields, "ts")
  /\ StrictTs(body.fields["ts"].s)
  /\ \/ "text" \notin DOMAIN body.fields
     \/ body.fields["text"].t = "none"
     \/ Len(body.fields["text"].s) <= 4096

\* A valid payload delivered with the right signature to a configured
\* deployment.
ValidDelivery(r) ==
  /\ r.route = "webhook"
  /\ secret # ""
  /\ CorrectlySigned(r)
  /\ ValidPayload(r.body)

IdOf(r) == r.body.fields["message_id"].s

RowsWithId(tbl, id) == {i \in 1..Len(tbl) : tbl[i].message_id = id}

\* The row holds the fields of the payload.
RowOfPayload(row, body) ==
  /\ row.message_id = body.fields["message_id"].s
  /\ row.from_msisdn = body.fields["from"].s
  /\ row.to_msisdn = body.fields["to"].s
  /\ row.ts = body.fields["ts"].s
  /\ row.text = (IF "text" \in DOMAIN body.fields THEN body.fields["text"] ELSE None)

IsErrorStatus(st) == st \in {401, 422, 503} \/ (st >= 500 /\ st <= 599)

(***************************************************************************)
(* C1.  Idempotence: a valid, correctly signed delivery is answered        *)
(* 200 {"status":"ok"} on any prior store, and afterwards the store holds  *)
(* exactly one row with its message_id; if the row was there already (a    *)
(* second or later delivery) the store is exactly as it was, otherwise it  *)
(* gained the one row of the payload.                                      *)
(***************************************************************************)
C1_Idempotent ==
  \A p \in Handlers :
    (Done(p) /\ ValidDelivery(req[p])) =>
      /\ resp[p] = [status |-> 200, json |-> [status |-> "ok"]]
      /\ Cardinality(RowsWithId(store, IdOf(req[p]))) = 1
      /\ IF RowsWithId(store0[p], IdOf(req[p])) # {}
         THEN store = store0[p]
         ELSE /\ Len(store) = Len(store0[p]) + 1
              /\ SubSeq(store, 1, Len(store0[p])) = store0[p]
              /\ RowOfPayload(store[Len(store)], req[p].body)

\* A repeated delivery has been answered: the row was there when it came.
C1_Witness ==
  \E p \in Handlers :
    /\ Done(p)
    /\ ValidDelivery(req[p])
    /\ RowsWithId(store0[p], IdOf(req[p])) # {}
    /\ resp[p].status = 200
    /\ Len(store) >= 2

(***************************************************************************)
(* C2.  Uniqueness under concurrency: whatever the interleaving of the     *)
(* handlers, the store never holds two rows with one message_id, the       *)
(* handlers that observed created for a message_id are as many as its rows *)
(* (none lost), the row is the payload of the handler that observed        *)
(* created, and once all handlers inserting a message_id have answered,    *)
(* exactly one observed created and all the others duplicate.              *)
(***************************************************************************)
Inserting(id) ==
  {p \in Handlers : pc[p] \in {"insert", "commit", "done"}
                      /\ msg[p] # NoMessage /\ msg[p].message_id = id}

Observed(id, outcome) ==
  {p \in Inserting(id) : Done(p) /\ result[p] = outcome}

RowsKept ==
  /\ Len(store') >= Len(store)
  /\ \A i \in 1..Len(store) : store'[i] = store[i]

InsertAnswered200 ==
  \A p \in Handlers :
    (pc[p] \in {"insert", "commit"} /\ pc'[p] = "done") => resp'[p].status = 200

C3_Immutable == [][RowsKept /\ InsertAnswered200]_vars

\* A delivery of a stored message_id with another sender, at a later clock
\* reading, has been answered and the row is the old one.
C3_Witness ==
  \E p \in Handlers :
    /\ WebhookDone(p)
    /\ result[p] = "duplicate"
    /\ resp[p].status = 200
    /\ \E i \in RowsWithId(store, msg[p].message_id) :
         /\ store[i].from_msisdn # msg[p].from_
         /\ store[i].ts # msg[p].ts
         /\ store[i].created_at < now

(***************************************************************************)
(* C4.  No unauthenticated write: the table changes only in a step of a    *)
(* webhook request whose X-Signature is the HMAC of its body under the     *)
(* configured, non-empty secret; a request whose signature is missing or   *)
(* different is answered 401 with the table untouched; with an empty       *)
(* secret every webhook request is answered 503 and the table stays empty. *)
(***************************************************************************)
WriteIsAuthenticated ==
  store' # store =>
    \E p \in Handlers :
      /\ pc[p] = "commit"
      /\ pc'[p] = "done"
      /\ req[p].route = "webhook"
      /\ secret # ""
      /\ CorrectlySigned(req[p])

UnauthenticatedRefused ==
  \A p \in Handlers :
    WebhookDone(p) =>
      /\ (secret # "" /\ ~CorrectlySigned(req[p])) =>
           (resp[p].status = 401 /\ store = store0[p])
      /\ secret = "" => resp[p].status = 503

C4_NoUnauthenticatedWrite ==
  /\ [](UnauthenticatedRefused /\ (secret = "" => store = <<>>))
  /\ [][WriteIsAuthenticated]_vars

\* An unsigned valid payload has been refused on a store that holds rows.
C4_Witness ==
  \E p \in Handlers :
    /\ WebhookDone(p)
    /\ req[p].x_signature = NoSignature
    /\ ValidPayload(req[p].body)
    /\ resp[p].status = 401
    /\ store # <<>>

(***************************************************************************)
(* C5.  The checks of the webhook handler run in a fixed order and the     *)
(* first that fails decides the answer: an empty secret gives 503 whatever *)
(* the signature and body; otherwise a missing or wrong signature gives    *)
(* 401 whatever the body; otherwise a body that is not JSON gives 422;     *)
(* otherwise a JSON object with a field the validator rejects gives 422;   *)
(* the INSERT is executed at most once per request, and only for a request *)
(* that passed all four checks.                                            *)
(***************************************************************************)
PassesValidator(body) ==
  /\ body.kind = "object"
  /\ ModelOk(body.fields)
  /\ ValidateFields(WebhookMessage(body.fields))

C5_CheckOrder ==
  \A p \in Handlers :
    /\ inserts[p] <= 1
    /\ inserts[p] = 1 =>
         /\ req[p].route = "webhook"
         /\ secret # ""
         /\ CorrectlySigned(req[p])
         /\ req[p].body.kind # "malformed"
         /\ PassesValidator(req[p].body)
    /\ WebhookDone(p) =>
         IF secret = "" THEN resp[p].status = 503
         ELSE IF ~CorrectlySigned(req[p]) THEN resp[p].status = 401
         ELSE IF req[p].body.kind = "malformed" THEN resp[p].status = 422
         ELSE IF req[p].body.kind = "object" /\ ~PassesValidator(req[p].body)
              THEN resp[p].status = 422
         ELSE req[p].body.kind = "object" => (resp[p].status = 200 /\ inserts[p] = 1)

\* An unsigned body that is not JSON has been answered 401, not 422.
C5_Witness ==
  \E p \in Handlers :
    /\ WebhookDone(p)
    /\ secret # ""
    /\ ~CorrectlySigned(req[p])
    /\ req[p].body.kind = "malformed"
    /\ resp[p].status = 401

(***************************************************************************)
(* C6.  With the secret configured and a valid signature, the webhook      *)
(* answers 200 if and only if the body is a JSON object keeping every      *)
(* validator rule; every other signed body (malformed JSON, JSON that is   *)
(* not an object, an object with a missing or invalid field) is answered   *)
(* 422, never a 500-class response.                                        *)
(***************************************************************************)
C6_SignedOutcome ==
  \A p \in Handlers :
    (WebhookDone(p) /\ secret # "" /\ CorrectlySigned(req[p])) =>
      /\ resp[p].status = 200 <=> ValidPayload(req[p].body)
      /\ resp[p].status \in {200, 422}

(***************************************************************************)
(* C7.  Every stored message has a non-empty message_id, a from_msisdn and *)
(* a to_msisdn that are exactly '+' and 8 to 15 digits with a non-zero     *)
(* first digit, a ts that ends in Z and parses as a date-time, and a text  *)
(* that is absent or at most 4096 characters long.                         *)
(***************************************************************************)
RowWellFormed(row) ==
  /\ row.message_id # <<>>
  /\ StrictE164(row.from_msisdn)
  /\ StrictE164(row.to_msisdn)
  /\ StrictTs(row.ts)
  /\ row.text.t = "none" \/ Len(row.text.s) <= 4096

C7_StoredRowsWellFormed == \A i \in 1..Len(store) : RowWellFormed(store[i])

(***************************************************************************)
(* C8.  A webhook request that ends in an error response (401, 422, 503 or *)
(* a 500-class response) leaves the table exactly as it was when the       *)
(* request arrived, and no transaction of it is left open.                 *)
(***************************************************************************)
C8_ErrorLeavesStore ==
  \A p \in Handlers :
    (WebhookDone(p) /\ IsErrorStatus(resp[p].status)) =>
      /\ store = store0[p]
      /\ txn[p] = <<>>
      /\ writeLock # p
      /\ inserts[p] = 0

\* A signed array has been answered 500 on a table that holds rows.
C8_Witness ==
  \E p \in Handlers :
    /\ WebhookDone(p)
    /\ resp[p].status = 500
    /\ store # <<>>

(***************************************************************************)
(* C9.  Ordering: the records of every GET /messages response are          *)
(* non-decreasing in ts, and records with equal ts are in ascending        *)
(* message_id order, for every filter and page.                            *)
(***************************************************************************)
\* Byte order of strings, smaller first.
Precedes(a, b) ==
  \/ /\ Len(a) < Len(b)
     /\ \A j \in 1..Len(a) : a[j] = b[j]
  \/ \E k \in 1..Len(a) :
       /\ k <= Len(b)
       /\ \A j \in 1..(k - 1) : a[j] = b[j]
       /\ Code[a[k]] < Code[b[k]]

C9_Ordered ==
  \A p \in Handlers :
    (MessagesDone(p) /\ resp[p].status = 200) =>
      \A i, j \in 1..Len(resp[p].data) :
        i < j =>
          LET a == resp[p].data[i]
              b == resp[p].data[j]
          IN  \/ Precedes(a.ts, b.ts)
              \/ a.ts = b.ts /\ Precedes(a.message_id, b.message_id)

\* A response lists three records, two of them with one ts, while the table
\* holds the two in the other order.
C9_Witness ==
  \E p \in Handlers :
    /\ MessagesDone(p)
    /\ resp[p].status = 200
    /\ Len(resp[p].data) = 3
    /\ \E i \in 1..2 : resp[p].data[i].ts = resp[p].data[i + 1].ts
    /\ \E i, j \in 1..Len(store) :
         /\ i < j
         /\ store[i].ts = store[j].ts
         /\ Precedes(store[j].message_id, store[i].message_id)

(***************************************************************************)
(* C10.  Pagination consistency, on an unchanged table and fixed filters:  *)
(* the k-th record of the page for (limit, offset) is the match with       *)
(* exactly offset + k - 1 matches before it in (ts, message_id) order and  *)
(* the page holds min(limit, matches - offset) records; pages with         *)
(* disjoint offset ranges share no message_id; the query repeated gives    *)
(* the same page; and the consecutive pages of one size list every match   *)
(* exactly once.                                                           *)
(***************************************************************************)
KeyPrecedes(a, b) ==
  \/ Precedes(a.ts, b.ts)
  \/ a.ts = b.ts /\ Precedes(a.message_id, b.message_id)

\* The rows of the table the filters of request r select.
Matches(r) ==
  {i \in 1..Len(store) : RowMatches(store[i], NormalizeFrom(r.from), r.since, r.q)}

\* How many matches come before row i.
Rank(r, i) == Cardinality({j \in Matches(r) : KeyPrecedes(store[j], store[i])})

Page(r, limit, offset) ==
  FetchMessages(store, NormalizeFrom(r.from), r.since, r.q, limit, offset)

Ids(page) == {page[k].message_id : k \in 1..Len(page)}

\* The pages of size limit at offsets 0, limit, 2 * limit, ... one after
\* the other, n of them.
RECURSIVE Pages(_, _, _)
Pages(r, limit, n) ==
  IF n = 0 THEN <<>>
  ELSE Pages(r, limit, n - 1) \o Page(r, limit, (n - 1) * limit)

PageSizes == {1, 2, 50}

PageOffsets == {0, 1, 2, 3}

C10_Pagination ==
  \A p \in Handlers :
    (MessagesDone(p) /\ resp[p].status = 200 /\ store = store0[p]) =>
      LET r == req[p]
          data == resp[p].data
          n == Cardinality(Matches(r))
          limit == Bound(r.limit, DefaultLimit)
          offset == Bound(r.offset, DefaultOffset)
          rest == IF n > offset THEN n - offset ELSE 0
      IN  /\ Len(data) = (IF limit < rest THEN limit ELSE rest)
          /\ \A k \in 1..Len(data) :
               \E i \in Matches(r) :
                 /\ store[i].message_id = data[k].message_id
                 /\ Rank(r, i) = offset + k - 1
          /\ \A l2 \in PageSizes : \A o2 \in PageOffsets :
               (o2 + l2 <= offset \/ offset + limit <= o2) =>
                 Ids(data) \cap Ids(Page(r, l2, o2)) = {}
          /\ data = Page(r, limit, offset)
          /\ LET all == Pages(r, limit, n + 1)
             IN  /\ Len(all) = n
                 /\ {all[k].message_id : k \in 1..Len(all)}
                      = {store[i].message_id : i \in Matches(r)}

\* The second page of size one, on a table with three matches.
C10_Witness ==
  \E p \in Handlers :
    /\ MessagesDone(p)
    /\ resp[p].status = 200
    /\ req[p].limit = Num(1)
    /\ req[p].offset = Num(1)
    /\ Len(resp[p].data) = 1
    /\ Cardinality(Matches(req[p])) = 3
    /\ resp[p].data[1].message_id # Page(req[p], 1, 0)[1].message_id

(***************************************************************************)
(* C11.  Filter correctness for since: a GET /messages request with since  *)
(* = T as its only filter and a page that holds every match returns no     *)
(* record with ts < T and every stored record with ts >= T, those with ts  *)
(* = T included, ts compared as strings.                                   *)
(***************************************************************************)
\* A finished, answered GET /messages request of handler p whose page
\* starts at the first match and is as long as the table.
WholePage(p) ==
  /\ MessagesDone(p)
  /\ resp[p].status = 200
  /\ resp[p].offset = 0
  /\ resp[p].limit >= Len(store)

\* The message_ids of the rows of the table that satisfy keep.
IdsWhere(keep(_)) == {store[i].message_id : i \in {j \in 1..Len(store) : keep(store[j])}}

AtOrAfter(t, ts) == t = ts \/ Precedes(t, ts)

C11_SinceFilter ==
  \A p \in Handlers :
    (/\ WholePage(p)
     /\ req[p].from = None
     /\ req[p].q = None
     /\ req[p].since # None) =>
      LET T == req[p].since.s
          AtOrAfterT(row) == AtOrAfter(T, row.ts)
      IN  /\ Ids(resp[p].data) = IdsWhere(AtOrAfterT)
          /\ Len(resp[p].data) = Cardinality(IdsWhere(AtOrAfterT))

\* since = T on a table with a record before T, one at T and one after T.
C11_Witness ==
  \E p \in Handlers :
    /\ WholePage(p)
    /\ req[p].from = None
    /\ req[p].q = None
    /\ req[p].since = Str(Ts1)
    /\ \E i, j, k \in 1..Len(store) :
         /\ Precedes(store[i].ts, Ts1)
         /\ store[j].ts = Ts1
         /\ Precedes(Ts1, store[k].ts)
         /\ store[i].message_id \notin Ids(resp[p].data)
         /\ store[j].message_id \in Ids(resp[p].data)
         /\ store[k].message_id \in Ids(resp[p].data)

(***************************************************************************)
(* C12.  The q filter is a case-insensitive substring match: for every     *)
(* non-empty q, a stored record matches if and only if the lower-cased q   *)
(* occurs as a literal contiguous substring of the record's lower-cased    *)
(* text, an absent text counting as the empty string; no character of q    *)
(* has any other meaning.                                                  *)
(***************************************************************************)
\* sub occurs in s as a run of adjacent characters.
Contains(s, sub) ==
  \E k \in 0..(Len(s) - Len(sub)) :
    \A j \in 1..Len(sub) : s[k + j] = sub[j]

TextOf(row) == IF row.text = None THEN <<>> ELSE row.text.s

C12_LiteralSubstring ==
  \A p \in Handlers :
    (/\ WholePage(p)
     /\ req[p].from = None
     /\ req[p].since = None
     /\ req[p].q # None
     /\ req[p].q.s # <<>>) =>
      LET HasQ(row) == Contains(Lower(TextOf(row)), Lower(req[p].q.s))
      IN  Ids(resp[p].data) = IdsWhere(HasQ)

(***************************************************************************)
(* C13.  Filters are AND-combined and total ignores pagination: a record   *)
(* is eligible exactly when it satisfies every provided filter among from  *)
(* (equality with the applied value), since and q; the total of the        *)
(* envelope is the number of eligible records whatever limit and offset    *)
(* are, the data are eligible records, and limit and offset are echoed.    *)
(***************************************************************************)
\* A filter counts as provided when it has a non-empty value.
Provided(v) == v # None /\ v.s # <<>>

\* The three filters of the request of handler p, each on its own.
FromHolds(p, row) == Provided(query[p].from) => row.from_msisdn = query[p].from.s

SinceHolds(p, row) == Provided(req[p].since) => AtOrAfter(req[p].since.s, row.ts)

QHolds(p, row) ==
  Provided(req[p].q) =>
    Like(Lower(TextOf(row)), <<"%">> \o Lower(req[p].q.s) \o <<"%">>)

Eligible(p) ==
  {i \in 1..Len(store) :
     FromHolds(p, store[i]) /\ SinceHolds(p, store[i]) /\ QHolds(p, store[i])}

C13_AndCombinedTotal ==
  \A p \in Handlers :
    (MessagesDone(p) /\ resp[p].status = 200) =>
      /\ resp[p].total = Cardinality(Eligible(p))
      /\ Ids(resp[p].data) \subseteq {store[i].message_id : i \in Eligible(p)}
      /\ resp[p].limit >= Cardinality(Eligible(p)) /\ resp[p].offset = 0
           => Len(resp[p].data) = Cardinality(Eligible(p))
      /\ req[p].limit # None => resp[p].limit = req[p].limit.n
      /\ req[p].offset # None => resp[p].offset = req[p].offset.n

\* All three filters given; a record passes from and since but not q; the
\* page is shorter than the total.
C13_Witness ==
  \E p \in Handlers :
    /\ MessagesDone(p)
    /\ resp[p].status = 200
    /\ Provided(req[p].from) /\ Provided(req[p].since) /\ Provided(req[p].q)
    /\ resp[p].total >= 1
    /\ Len(resp[p].data) < resp[p].total
    /\ \E i \in 1..Len(store) :
         FromHolds(p, store[i]) /\ SinceHolds(p, store[i]) /\ ~QHolds(p, store[i])

(***************************************************************************)
(* C14.  GET /messages answers 422, before it reads the table, exactly     *)
(* when limit is outside 1..100 or offset is negative; with limit or       *)
(* offset left out, 50 or 0 is used and echoed.                            *)
(***************************************************************************)
\* The limit and offset the request of handler p asks for.
AskedLimit(p) == IF req[p].limit = None THEN 50 ELSE req[p].limit.n

AskedOffset(p) == IF req[p].offset = None THEN 0 ELSE req[p].offset.n

C14_PageValidation ==
  \A p \in Handlers :
    /\ (pc[p] \in {"fetch", "done"} /\ req[p].route = "messages") =>
         LET bad == AskedLimit(p) < 1 \/ AskedLimit(p) > 100 \/ AskedOffset(p) < 0
         IN  /\ bad => pc[p] = "done" /\ resp[p] = [status |-> 422] /\ query[p] = NoQuery
             /\ ~bad /\ pc[p] = "done" =>
                  /\ resp[p].status = 200
                  /\ resp[p].limit = AskedLimit(p)
                  /\ resp[p].offset = AskedOffset(p)
                  /\ Len(resp[p].data) <= AskedLimit(p)

\* limit and offset left out on a table of three rows: 50 and 0 are echoed
\* and the three rows returned.
C14_Witness ==
  \E p \in Handlers :
    /\ MessagesDone(p)
    /\ Len(store) = 3
    /\ req[p].limit = None
    /\ req[p].offset = None
    /\ resp[p].status = 200
    /\ resp[p].limit = 50
    /\ resp[p].offset = 0
    /\ Len(resp[p].data) = 3

(***************************************************************************)
(* C15.  Normalization of the from filter, as stated: a received value     *)
(* whose first character is a digit is applied as + followed by the value, *)
(* a value starting with + is applied as received, and the records         *)
(* returned are exactly those whose from_msisdn equals the applied value.  *)
(***************************************************************************)
\* A finished request of handler p with from as its only filter and a page
\* that holds every match.
OnlyFrom(p) ==
  /\ WholePage(p)
  /\ req[p].since = None
  /\ req[p].q = None
  /\ req[p].from # None

\* The records returned to handler p are those sent by sender.
ReturnsSender(p, sender) ==
  LET FromSender(row) == row.from_msisdn = sender
  IN  Ids(resp[p].data) = IdsWhere(FromSender)

C15_AppliedAsReceived ==
  \A p \in Handlers :
    (OnlyFrom(p) /\ req[p].from.s # <<>>) =>
      LET v == req[p].from.s
      IN  /\ IsDigit(v[1]) => ReturnsSender(p, <<"+">> \o v)
          /\ v[1] = "+" => ReturnsSender(p, v)

(***************************************************************************)
(* C15, amended.  The received value is first stripped of leading and      *)
(* trailing whitespace; a stripped value whose first character is a digit  *)
(* is applied as + followed by it, a stripped value starting with + is     *)
(* applied as it is, and the records returned are exactly those whose      *)
(* from_msisdn equals the applied value.                                   *)
(***************************************************************************)
Blank(c) == c \in {" ", "\n"}

\* s without the blanks at its two ends.
Trimmed(s) ==
  LET inked == {i \in 1..Len(s) : ~Blank(s[i])}
  IN  IF inked = {} THEN <<>>
      ELSE LET lo == CHOOSE i \in inked : \A j \in inked : i <= j
               hi == CHOOSE i \in inked : \A j \in inked : j <= i
           IN  SubSeq(s, lo, hi)

C15_StrippedThenNormalized ==
  \A p \in Handlers :
    (OnlyFrom(p) /\ Trimmed(req[p].from.s) # <<>>) =>
      LET v == Trimmed(req[p].from.s)
      IN  /\ IsDigit(v[1]) =>
               /\ query[p].from = Str(<<"+">> \o v)
               /\ ReturnsSender(p, <<"+">> \o v)
          /\ v[1] = "+" =>
               /\ query[p].from = Str(v)
               /\ ReturnsSender(p, v)

\* The sender +919876543210 has stored records, another sender too, and the
\* value that lost its + (it arrived as a space) finds the first sender's.
C15_Witness ==
  \E p \in Handlers :
    /\ OnlyFrom(p)
    /\ req[p].from = Str(PhoneSpace)
    /\ resp[p].data # <<>>
    /\ Len(resp[p].data) < Len(store)
    /\ \A k \in 1..Len(resp[p].data) : resp[p].data[k].from = PhoneA

(***************************************************************************)
(* C16.  GET /stats ranking: messages_per_sender lists at most 10 senders, *)
(* by message count descending and, among equal counts, by from_msisdn     *)
(* ascending; each count is the number of stored messages of that sender;  *)
(* the senders listed are the first of that order.                         *)
(***************************************************************************)
StatsDone(p) == Done(p) /\ req[p].route = "stats"

\* The number of stored messages sent by sender.
MessagesOf(sender) ==
  Cardinality({i \in 1..Len(store) : store[i].from_msisdn = sender})

AllSenders == {store[i].from_msisdn : i \in 1..Len(store)}

\* Sender a ranks before sender b.
RanksBefore(a, b) ==
  \/ MessagesOf(a) > MessagesOf(b)
  \/ MessagesOf(a) = MessagesOf(b) /\ Precedes(a, b)

C16_TopSendersRanking ==
  \A p \in Handlers :
    (StatsDone(p) /\ store = store0[p]) =>
      LET top == resp[p].messages_per_sender
      IN  /\ Len(top) = (IF Cardinality(AllSenders) < 10
                         THEN Cardinality(AllSenders) ELSE 10)
          /\ \A k \in 1..Len(top) :
               /\ top[k].from \in AllSenders
               /\ top[k].count = MessagesOf(top[k].from)
               /\ Cardinality({a \in AllSenders : RanksBefore(a, top[k].from)})
                    = k - 1

(***************************************************************************)
(* C17.  GET /stats values on an unchanged table: total_messages is the    *)
(* number of stored records, senders_count the number of distinct          *)
(* from_msisdn values, first_message_ts and last_message_ts the ts of the  *)
(* first and of the last record in (ts, message_id) order; on an empty     *)
(* table 0, 0, no top senders, null and null.                              *)
(***************************************************************************)
\* The rows no other row comes before, and after, in (ts, message_id) order.
FirstRows == {i \in 1..Len(store) : \A j \in 1..Len(store) : ~KeyPrecedes(store[j], store[i])}

LastRows == {i \in 1..Len(store) : \A j \in 1..Len(store) : ~KeyPrecedes(store[i], store[j])}

C17_StatsValues ==
  \A p \in Handlers :
    (StatsDone(p) /\ store = store0[p]) =>
      /\ resp[p].status = 200
      /\ resp[p].total_messages = Len(store)
      /\ resp[p].senders_count = Cardinality(AllSenders)
      /\ IF store = <<>>
         THEN /\ resp[p].messages_per_sender = <<>>
              /\ resp[p].first_message_ts = None
              /\ resp[p].last_message_ts = None
         ELSE /\ \E i \in FirstRows : resp[p].first_message_ts = Str(store[i].ts)
              /\ \E i \in LastRows : resp[p].last_message_ts = Str(store[i].ts)

\* Three records of two senders, inserted in another order than their ts.
C17_Witness ==
  \E p \in Handlers :
    /\ StatsDone(p)
    /\ store = store0[p]
    /\ resp[p].total_messages = 3
    /\ resp[p].senders_count = 2
    /\ resp[p].first_message_ts # Str(store[1].ts)
    /\ resp[p].last_message_ts # Str(store[3].ts)

(***************************************************************************)
(* C18.  GET /stats computes its result in one consistent read: for every  *)
(* /stats response, also one produced while webhook inserts commit, there  *)
(* is one state of the table reached during the request from which all     *)
(* five values are derived; so senders_count and the sum of the listed     *)
(* counts never exceed total_messages, and first and last ts are null only *)
(* if total_messages is 0.                                                 *)
(***************************************************************************)
\* The table after its first k rows were committed.  Rows are only ever
\* appended, so the states of the table during a request are its prefixes
\* from the length at arrival on.
TableAt(k) == SubSeq(store, 1, k)

During(p) == Len(store0[p])..Len(store)

SendersIn(tbl) == {tbl[i].from_msisdn : i \in 1..Len(tbl)}

CountIn(tbl, sender) == Cardinality({i \in 1..Len(tbl) : tbl[i].from_msisdn = sender})

\* top is a list of the senders of tbl, ten at most, with their counts,
\* larger counts first.
RankingOf(top, tbl) ==
  /\ Len(top) = (IF Cardinality(SendersIn(tbl)) < 10
                 THEN Cardinality(SendersIn(tbl)) ELSE 10)
  /\ \A k \in 1..Len(top) :
       /\ top[k].from \in SendersIn(tbl)
       /\ top[k].count = CountIn(tbl, top[k].from)
       /\ \A a \in SendersIn(tbl) \ {top[j].from : j \in 1..Len(top)} :
            CountIn(tbl, a) <= top[k].count
  /\ \A j, k \in 1..Len(top) :
       j < k => top[j].from # top[k].from /\ top[j].count >= top[k].count

\* ts is the ts of the first (of the last) row of tbl in (ts, message_id)
\* order, or null when tbl is empty.
FirstTsOf(ts, tbl) ==
  IF tbl = <<>> THEN ts = None
  ELSE \E i \in 1..Len(tbl) :
         /\ ts = Str(tbl[i].ts)
         /\ \A j \in 1..Len(tbl) : ~KeyPrecedes(tbl[j], tbl[i])

LastTsOf(ts, tbl) ==
  IF tbl = <<>> THEN ts = None
  ELSE \E i \in 1..Len(tbl) :
         /\ ts = Str(tbl[i].ts)
         /\ \A j \in 1..Len(tbl) : ~KeyPrecedes(tbl[i], tbl[j])

RECURSIVE SumCounts(_)
SumCounts(top) ==
  IF top = <<>> THEN 0 ELSE Head(top).count + SumCounts(Tail(top))

C18_OneConsistentRead ==
  \A p \in Handlers :
    StatsDone(p) =>
      /\ \E k \in During(p) :
           /\ resp[p].total_messages = Len(TableAt(k))
           /\ resp[p].senders_count = Cardinality(SendersIn(TableAt(k)))
           /\ RankingOf(resp[p].messages_per_sender, TableAt(k))
           /\ FirstTsOf(resp[p].first_message_ts, TableAt(k))
           /\ LastTsOf(resp[p].last_message_ts, TableAt(k))
      /\ resp[p].senders_count <= resp[p].total_messages
      /\ SumCounts(resp[p].messages_per_sender) <= resp[p].total_messages
      /\ (resp[p].first_message_ts = None \/ resp[p].last_message_ts = None)
           => resp[p].total_messages = 0

(***************************************************************************)
(* C18, amended.  GET /stats reads its five values one after the other,    *)
(* each in a consistent read of its own: for every /stats response there   *)
(* are states of the table reached during the request, each the same as or *)
(* later than the one before, from which total_messages, senders_count,    *)
(* messages_per_sender, first_message_ts and last_message_ts are derived   *)
(* in this order; when no insert commits during the request they are one   *)
(* state; and first and last ts are null only if total_messages is 0.      *)
(***************************************************************************)
C18_EachReadConsistent ==
  \A p \in Handlers :
    StatsDone(p) =>
      /\ \E k1, k2, k3, k4, k5 \in During(p) :
           /\ k1 <= k2 /\ k2 <= k3 /\ k3 <= k4 /\ k4 <= k5
           /\ resp[p].total_messages = Len(TableAt(k1))
           /\ resp[p].senders_count = Cardinality(SendersIn(TableAt(k2)))
           /\ RankingOf(resp[p].messages_per_sender, TableAt(k3))
           /\ FirstTsOf(resp[p].first_message_ts, TableAt(k4))
           /\ LastTsOf(resp[p].last_message_ts, TableAt(k5))
      /\ (resp[p].first_message_ts = None \/ resp[p].last_message_ts = None)
           => resp[p].total_messages = 0

\* A response whose total was read before an insert committed and whose
\* other values were read after it.
C18_Witness ==
  \E p \in Handlers :
    /\ StatsDone(p)
    /\ resp[p].total_messages = 0
    /\ resp[p].senders_count = 1
    /\ Len(resp[p].messages_per_sender) = 2
    /\ resp[p].last_message_ts # resp[p].first_message_ts

(***************************************************************************)
(* C19.  No operation blocks indefinitely: under fair scheduling every     *)
(* POST /webhook, GET /messages and GET /stats request a handler has taken *)
(* is eventually answered, with exactly one response, also while other     *)
(* requests, inserts of the same message_id among them, run against the    *)
(* shared table.                                                           *)
(***************************************************************************)
\* Handler p is serving a request it has not answered yet.
Serving(p) == pc[p] \notin {"idle", "done"}

Answered(p) == resp[p] # NoResponse

\* A response, once sent, stays the response of the request.
OneResponse ==
  \A p \in Handlers :
    Answered(p) => (resp'[p] = resp[p] \/ pc'[p] = "idle")

\* A handler stops serving its request only by completing it.
LeavesByCompleting ==
  \A p \in Handlers : (Serving(p) /\ ~Serving(p)') => Done(p)'

\* No handler stays in the middle of a request for ever, and a handler in
\* the middle of a request leaves it only with the request done: together,
\* every request taken is eventually done.
C19_EveryRequestCompletes ==
  /\ \A p \in Handlers : []<>(~Serving(p))
  /\ [][LeavesByCompleting]_vars
  /\ [](\A p \in Handlers : Done(p) <=> Answered(p))
  /\ [][OneResponse]_vars

\* A delivery was answered as a duplicate of a row that another handler
\* committed while it was being served, and a GET /stats request was
\* answered after the table changed under it.
C19_Witness ==
  /\ \E p \in Writers :
       /\ WebhookDone(p)
       /\ result[p] = "duplicate"
       /\ RowsWithId(store0[p], msg[p].message_id) = {}
  /\ StatsDone(Reader)
  /\ store # store0[Reader]

(***************************************************************************)
(* C20.  Envelope of GET /messages under concurrent writes.  As stated: in *)
(* every response the number of records in data equals min(limit, max(0,   *)
(* total - offset)) for the total of the same response.  As the code has   *)
(* it: total is counted first and the page is fetched afterwards, each in  *)
(* a consistent read of its own; total is the number of matches in the     *)
(* table as it was at some moment of the request and data is the page of   *)
(* the table as it was at the same or a later moment, so data holds at     *)
(* least min(limit, max(0, total - offset)) and at most limit records, and *)
(* exactly that many when no insert commits during the request.            *)
(***************************************************************************)
\* The length of the page of a result of total matches.
Shown(total, limit, offset) ==
  LET rest == IF total > offset THEN total - offset ELSE 0
  IN  IF limit < rest THEN limit ELSE rest

\* The rows among the first k of the table that pass the filters of the
\* request of handler p.
EligibleAt(p, k) == {i \in Eligible(p) : i <= k}

Answered200(p) == MessagesDone(p) /\ resp[p].status = 200

C20_EnvelopeConsistent ==
  \A p \in Handlers :
    Answered200(p) =>
      Len(resp[p].data) = Shown(resp[p].total, resp[p].limit, resp[p].offset)

C20_CountThenPage ==
  \A p \in Handlers :
    Answered200(p) =>
      LET data == resp[p].data
          shown == Shown(resp[p].total, resp[p].limit, resp[p].offset)
      IN  /\ \E k1 \in During(p) : \E k2 \in k1..Len(store) :
               /\ resp[p].total = Cardinality(EligibleAt(p, k1))
               /\ Len(data) = Shown(Cardinality(EligibleAt(p, k2)),
                                    resp[p].limit, resp[p].offset)
               /\ Ids(data) \subseteq
                    {store[i].message_id : i \in EligibleAt(p, k2)}
          /\ shown <= Len(data)
          /\ Len(data) <= resp[p].limit
          /\ store = store0[p] => Len(data) = shown

\* A response whose total was counted before an insert committed and whose
\* page was fetched after it.
C20_Witness ==
  /\ Answered200(Reader)
  /\ resp[Reader].total = 0
  /\ Len(resp[Reader].data) = 1
  /\ resp[Reader].offset = 0

(***************************************************************************)
(* C21.  Outcome accounting.  From an empty table and empty counters, over *)
(* any sequence or interleaving of webhook requests: a step that completes *)
(* a webhook request adds one to the counter of its result and to no       *)
(* other, and no other step changes a counter; an INSERT that runs gives   *)
(* created if and only if the table holds no row with its message_id at    *)
(* that moment; the created counter equals the number of rows in the       *)
(* table.                                                                  *)
(***************************************************************************)
\* The value a dict shows for key: 0 for a key never counted.
CountOf(d, key) == IF key \in Keys(d) THEN GetItem(d, key) ELSE 0

WebhookResults ==
  {"created", "duplicate", "validation_error", "invalid_signature",
   "secret_missing", "unknown"}

\* The handlers whose webhook request completes in this step with result res.
Completing(res) ==
  {p \in Handlers :
     /\ pc[p] # "done"
     /\ pc'[p] = "done"
     /\ req'[p].route = "webhook"
     /\ result'[p] = res}

CountsItsResult ==
  /\ \A res \in WebhookResults :
       CountOf(webhook_requests_total', <<res>>) =
         CountOf(webhook_requests_total, <<res>>) + Cardinality(Completing(res))
  /\ Keys(webhook_requests_total') \subseteq {<<res>> : res \in WebhookResults}

\* The INSERT statement of handler p runs in this step.
InsertRuns(p) ==
  /\ pc[p] = "insert"
  /\ pc'[p] \in {"commit", "done"}
  /\ result'[p] # "unknown" \/ pc'[p] = "commit"

CreatedIffAbsent ==
  \A p \in Handlers :
    /\ InsertRuns(p) =>
         /\ pc'[p] = "commit" <=> RowsWithId(store, msg[p].message_id) = {}
         /\ pc'[p] = "done" <=> result'[p] = "duplicate"
    /\ (pc[p] = "commit" /\ pc'[p] = "done") => result'[p] = "created"
    /\ (pc[p] \notin {"commit", "done"} /\ pc'[p] = "done") =>
         result'[p] # "created"

C21_OutcomeAccounting ==
  /\ [][CountsItsResult]_vars
  /\ [][CreatedIffAbsent]_vars
  /\ [](CountOf(webhook_requests_total, <<"created">>) = Len(store))

\* Two deliveries created rows, one was a duplicate and one gave up waiting
\* for the write lock.
C21_Witness ==
  /\ CountOf(webhook_requests_total, <<"created">>) = 2
  /\ CountOf(webhook_requests_total, <<"duplicate">>) = 1
  /\ CountOf(webhook_requests_total, <<"unknown">>) = 1
  /\ Len(store) = 2
  /\ \A p \in Handlers : ~Serving(p)

(***************************************************************************)
(* C22.  The counter registry is safe under concurrent calls: over every   *)
(* interleaving of inc_http, inc_webhook and render_prometheus calls, each *)
(* counter equals the number of completed increments of its key, no        *)
(* counter ever decreases and no key disappears, and the report a render   *)
(* returns is the rendering of both dicts as they are at one instant of    *)
(* the render.                                                             *)
(***************************************************************************)
HttpKeys == {HttpKey(r.path, r.status) : r \in CountedRequests}

WebhookKeys == {WebhookKey(res) : res \in CountedResults}

\* The threads whose increment of key by op has returned.
Returned(op, key) ==
  {t \in Handlers :
     call[t].op = op /\ call[t].at = "returned" /\ call[t].key = key}

NoIncrementLost ==
  /\ \A k \in HttpKeys :
       CountOf(http_requests_total, k) = Cardinality(Returned("inc_http", k))
  /\ \A k \in WebhookKeys :
       CountOf(webhook_requests_total, k) = Cardinality(Returned("inc_webhook", k))

NeverDecreases ==
  /\ Keys(http_requests_total) \subseteq Keys(http_requests_total')
  /\ Keys(webhook_requests_total) \subseteq Keys(webhook_requests_total')
  /\ \A k \in HttpKeys :
       CountOf(http_requests_total', k) >= CountOf(http_requests_total, k)
  /\ \A k \in WebhookKeys :
       CountOf(webhook_requests_total', k) >= CountOf(webhook_requests_total, k)

\* A render that returns in this step returns the rendering of the two
\* dicts as they are at this moment.
RendersOneInstant ==
  \A t \in Handlers :
    (call[t].op = "render" /\ call[t].at # "returned" /\ call'[t].at = "returned") =>
      call'[t].lines = RenderPrometheus(http_requests_total, webhook_requests_total)

C22_RegistryConcurrencySafe ==
  /\ []NoIncrementLost
  /\ [][NeverDecreases]_vars
  /\ [][RendersOneInstant]_vars

\* A render returned a report with a counter at 1, between two increments
\* of that counter by two other threads.
C22_Witness ==
  \E t \in Handlers : \E k \in HttpKeys :
    /\ call[t].op = "render"
    /\ call[t].at = "returned"
    /\ \E i \in 1..Len(call[t].lines) :
         call[t].lines[i] = SampleLine("http_requests_total", k, 1)
    /\ CountOf(http_requests_total, k) = 2
    /\ Keys(webhook_requests_total) = {}

====
